---- MODULE Spec2Model ----
(***************************************************************************)
(* Titon ventilation controller (webui_runtime/simple_webui.py): the       *)
(* serial command protocol, the fan-level strategy sequences, the          *)
(* night-quiet guard, the manual-override timer and the adaptive           *)
(* controller tick, as two threads (the request handler "api" and the      *)
(* background worker "auto") stepping against the shared dict `state`.     *)
(*                                                                         *)
(* Granularity: one serial transaction (one attempt of send_command) is    *)
(* one step; one `with state_lock:` section, together with the logging     *)
(* that follows it before the next serial transaction, is one step.        *)
(* Time is the wall clock in whole minutes; time.time() is now * 60.       *)
(* The log ring is written and never read by the controller: the model     *)
(* keeps, in `logged`, the entries the latest step appended (newest        *)
(* first), with kind, message and the metadata the handlers attach. The    *)
(* entries' "ts" field and auto_status.last_run are not modelled.          *)
(* Humidity values, targets, deltas and learning offsets are in            *)
(* thousandths of a percent; adapt_rate is in thousandths. Arithmetic on   *)
(* them is exact, and round(x, 3) rounds the exact value, ties to even.    *)
(* The sensor-refresh and telemetry workers, the two rings, the settings   *)
(* file, the locks and the serial port have variables of their own; the    *)
(* ring log_buffer holds the entries of the telemetry worker, whose        *)
(* iterations are the steps that fill the rings.                           *)
(***************************************************************************)
EXTENDS Integers, Sequences, FiniteSets, TLC

VARIABLES
  state,       \* the module-level dict `state` (Device State and flags)
  settings,    \* the module-level dict `settings`
  auto_state,  \* the module-level dict `auto_state` (the learning buffers)
  now,         \* wall clock, in minutes
  logged,      \* what the latest step appended to log_buffer, newest first
  pc,          \* per thread: where it stands in its handler
  op,          \* per thread: the device operation it runs
  result,      \* what the latest step returned to its caller, if it ended a call
  ops,         \* handler invocations and controller ticks begun so far
  history_buffer,  \* the deque history_buffer, oldest sample first
  log_buffer,      \* the deque log_buffer, newest entry first
  settings_file,   \* what SETTINGS_PATH holds
  serial,      \* the threads that have the serial port open
  locks,       \* per threading.Lock: the thread that holds it, or Free
  workers,     \* the sensor-refresh and telemetry workers: where each stands
  wire,        \* a send_command call taken alone: its arguments and its frame
  device       \* per level register: the value last written to the device

\* The variables the device operations and the controller tick leave alone.
plant == <<history_buffer, log_buffer, serial, locks, workers, wire, device>>

vars == <<state, settings, auto_state, now, logged, pc, op, result, ops,
          settings_file, plant>>

\* ------------------------------------------------------------------ bounds
\* Minutes the clock may advance past StartClock.
MaxTick == 1
\* Handler invocations and controller ticks a behaviour may begin.
MaxOps == 3

\* --------------------------------------------------------------- constants
\* Python's None, for the optional integer and timestamp fields.
None == -1
\* send_command retries while retry < 2.
MaxRetry == 2
SecondsPerMinute == 60
MinutesPerDay == 24 * 60

\* history_buffer = deque(maxlen=1440), log_buffer = deque(maxlen=500)
HistoryMaxlen == 1440
LogMaxlen == 500

\* DEFAULT_TARGET = 55.0
DefaultTarget == 55000
\* round(new_val, 3): thousandths in one unit.
Milli == 1000

Threads == {"api", "auto"}
\* The request threads of the threaded server (app.run): two requests in
\* progress at once.
Handlers == {"api", "api2"}
\* SENSOR_ENTITIES, as configured with two sensors, in list order.
SensorOrder == <<"s1", "s2">>
Sensors == {SensorOrder[i] : i \in 1..Len(SensorOrder)}
Levels == {1, 2, 3, 4}
LevelRegisters == {"151", "152", "154", "326"}
\* if addr in {"151", "152", "154", "045"}: wait_for_quiet_period(...)
GatedRegisters == {"151", "152", "154", "045"}

Max(a, b) == IF a >= b THEN a ELSE b
Min(a, b) == IF a <= b THEN a ELSE b

\* ------------------------------------------------------------ serial frames
\* The three leading characters of a frame for register addr.
RegToken(addr) ==
  CASE addr = "151" -> <<"1", "5", "1">>
    [] addr = "152" -> <<"1", "5", "2">>
    [] addr = "154" -> <<"1", "5", "4">>
    [] addr = "326" -> <<"3", "2", "6">>

\* The decimal digits of n >= 0, most significant first.
DigitChars == <<"0", "1", "2", "3", "4", "5", "6", "7", "8", "9">>

RECURSIVE Digits(_)
Digits(n) ==
  IF n < 10 THEN <<DigitChars[n + 1]>>
  ELSE Append(Digits(n \div 10), DigitChars[(n % 10) + 1])

\* A padding to four characters.
ZeroPad4(val) ==
  LET ds == Digits(val)
  IN IF Len(ds) >= 4 THEN ds ELSE [i \in 1..(4 - Len(ds)) |-> "0"] \o ds

\* format(val, "05d") for val >= 0: zeros on the left up to five characters,
\* and every digit of a longer number.
ZeroPad5(val) ==
  LET ds == Digits(val)
  IN IF Len(ds) >= 5 THEN ds ELSE [i \in 1..(5 - Len(ds)) |-> "0"] \o ds

\* cmd = f"{addr}0+{val:05d}\r\n", addr given as its characters.
EncodeFrame(addr, val) == addr \o <<"0", "+">> \o ZeroPad5(val) \o <<"\r", "\n">>

\* What ser.read may return: nothing, a fragment shorter than a register
\* token, or bytes that begin with some register's token.
Responses == {<<>>, <<"1", "5">>} \cup {RegToken(a) : a \in LevelRegisters}

\* One attempt's outcome: the link failed to open ("open", nothing was
\* written), it failed after the write ("io"), or the read returned resp.
Outcomes ==
  [fault : {"none"}, resp : Responses] \cup [fault : {"open", "io"}, resp : {<<>>}]

\* decoded[0:3] if len(decoded) >= 3 else None  (None is <<>> here).
ParsedReg(resp) == IF Len(resp) >= 3 THEN SubSeq(resp, 1, 3) ELSE <<>>

\* A send_command whose retry budget is one too large (retry <= 2).
SendVerdictExtraRetry(addr, resp, retry) ==
  IF resp # <<>>
    THEN IF ParsedReg(resp) # <<>> /\ ParsedReg(resp) # RegToken(addr) /\ retry <= MaxRetry
           THEN "retry"
           ELSE "ok"
    ELSE IF retry <= MaxRetry THEN "retry" ELSE "ok"

\* What send_command does with the bytes it read on attempt number `retry`.
SendVerdict(addr, resp, retry) ==
  IF resp # <<>>
    THEN IF ParsedReg(resp) # <<>> /\ ParsedReg(resp) # RegToken(addr) /\ retry < MaxRetry
           THEN "retry"
           ELSE "ok"
    ELSE IF retry < MaxRetry THEN "retry" ELSE "ok"

\* A send_command that also tracks boost inhibit when it writes register
\* 326, the way apply_boost_inhibit does.
SendRecordTrackingInhibit(st, addr, val, t) ==
  [st EXCEPT !.last_command = <<addr, val>>,
             !.last_command_time = t,
             !.boost_inhibit = IF addr = "326" THEN val = 1 ELSE @]

\* state["last_command"], state["last_command_time"] after a completed send.
SendRecord(st, addr, val, t) ==
  [st EXCEPT !.last_command = <<addr, val>>, !.last_command_time = t]

\* --------------------------------------------------------- level strategies
Step(addr, val, label) == [addr |-> addr, val |-> val, label |-> label]

\* A level-3 sequence that switches speed 3 on before the other speeds are off.
StrategiesEnablingEarly(level) ==
  CASE level = 1 -> << Step("154", 0, "Speed 4 OFF"),
                       Step("152", 0, "Speed 3 OFF"),
                       Step("151", 0, "Speed 1 OFF"),
                       Step("326", 1, "Boost Inhibit ON (block Speed 3/4)"),
                       Step("151", 1, "Speed 1 ON") >>
    [] level = 2 -> << Step("154", 0, "Speed 4 OFF"),
                       Step("152", 0, "Speed 3 OFF"),
                       Step("151", 0, "Speed 1 OFF"),
                       Step("326", 1, "Boost Inhibit ON (hold default Speed 2)") >>
    [] level = 3 -> << Step("326", 0, "Boost Inhibit OFF"),
                       Step("152", 1, "Speed 3 ON"),
                       Step("154", 0, "Speed 4 OFF"),
                       Step("151", 0, "Speed 1 OFF") >>
    [] level = 4 -> << Step("326", 0, "Boost Inhibit OFF"),
                       Step("152", 0, "Speed 3 OFF"),
                       Step("151", 0, "Speed 1 OFF"),
                       Step("154", 1, "Speed 4 ON") >>
    [] OTHER -> << >>

\* A level-3 sequence that leaves speed 4 as it was.
StrategiesLeavingSpeed4(level) ==
  CASE level = 1 -> << Step("154", 0, "Speed 4 OFF"),
                       Step("152", 0, "Speed 3 OFF"),
                       Step("151", 0, "Speed 1 OFF"),
                       Step("326", 1, "Boost Inhibit ON (block Speed 3/4)"),
                       Step("151", 1, "Speed 1 ON") >>
    [] level = 2 -> << Step("154", 0, "Speed 4 OFF"),
                       Step("152", 0, "Speed 3 OFF"),
                       Step("151", 0, "Speed 1 OFF"),
                       Step("326", 1, "Boost Inhibit ON (hold default Speed 2)") >>
    [] level = 3 -> << Step("326", 0, "Boost Inhibit OFF"),
                       Step("151", 0, "Speed 1 OFF"),
                       Step("152", 1, "Speed 3 ON") >>
    [] level = 4 -> << Step("326", 0, "Boost Inhibit OFF"),
                       Step("152", 0, "Speed 3 OFF"),
                       Step("151", 0, "Speed 1 OFF"),
                       Step("154", 1, "Speed 4 ON") >>
    [] OTHER -> << >>

Strategies(level) ==
  CASE level = 1 -> << Step("154", 0, "Speed 4 OFF"),
                       Step("152", 0, "Speed 3 OFF"),
                       Step("151", 0, "Speed 1 OFF"),
                       Step("326", 1, "Boost Inhibit ON (block Speed 3/4)"),
                       Step("151", 1, "Speed 1 ON") >>
    [] level = 2 -> << Step("154", 0, "Speed 4 OFF"),
                       Step("152", 0, "Speed 3 OFF"),
                       Step("151", 0, "Speed 1 OFF"),
                       Step("326", 1, "Boost Inhibit ON (hold default Speed 2)") >>
    [] level = 3 -> << Step("326", 0, "Boost Inhibit OFF"),
                       Step("154", 0, "Speed 4 OFF"),
                       Step("151", 0, "Speed 1 OFF"),
                       Step("152", 1, "Speed 3 ON") >>
    [] level = 4 -> << Step("326", 0, "Boost Inhibit OFF"),
                       Step("152", 0, "Speed 3 OFF"),
                       Step("151", 0, "Speed 1 OFF"),
                       Step("154", 1, "Speed 4 ON") >>
    [] OTHER -> << >>

\* A turn-off sequence that forgets to clear boost inhibit.
TurnOffStepsWithoutInhibit ==
  << Step("151", 0, "Speed 1 OFF"),
     Step("152", 0, "Speed 3 OFF"),
     Step("154", 0, "Speed 4 OFF") >>

TurnOffSteps ==
  << Step("151", 0, "Speed 1 OFF"),
     Step("152", 0, "Speed 3 OFF"),
     Step("154", 0, "Speed 4 OFF"),
     Step("326", 0, "Boost Inhibit OFF") >>

\* A boost toggle that first clears boost inhibit on the device.
BoostStepsClearingInhibit(new_state) ==
  << Step("326", 0, ""), Step("154", IF new_state THEN 1 ELSE 0, "") >>

\* api_toggle_boost's single send_command("154", 1 if new_state else 0).
BoostSteps(new_state) == << Step("154", IF new_state THEN 1 ELSE 0, "") >>

\* The sends operation o is made of.
Steps(o) ==
  CASE o.kind = "level" -> Strategies(o.level)
    [] o.kind = "off" -> TurnOffSteps
    [] o.kind = "boost" -> BoostSteps(o.new_state)
    [] OTHER -> << >>

Cmd(s) == <<s.addr, s.val>>

\* ------------------------------------------------------------------ logging
Entry(kind, message, step, level, register, value) ==
  [kind |-> kind, message |-> message, step |-> step, level |-> level,
   register |-> register, value |-> value]

\* append_log: log_buffer.appendleft(entry), on the entries of this step.
AppendLog(buf, e) == <<e>> \o buf

\* ------------------------------------------------------- night-quiet guard
\* parse_time("HH:MM"): the setting is kept as the pair <<HH, MM>>.
ParseTime(v) == v[1] * 60 + v[2]

\* now.time(), as minutes since midnight.
TimeOfDay(t) == t % MinutesPerDay

\* A window test that is closed at its end: start <= now <= end.
IsWithinQuietHoursClosed(st, cfg, t) ==
  IF ~st.night_quiet_enabled
    THEN FALSE
    ELSE LET start == ParseTime(cfg.night_quiet.start)
             end == ParseTime(cfg.night_quiet.end)
             now_time == TimeOfDay(t)
         IN IF start <= end
              THEN start <= now_time /\ now_time <= end
              ELSE now_time >= start \/ now_time <= end

\* is_within_quiet_hours(now) at wall-clock minute t.
IsWithinQuietHours(st, cfg, t) ==
  IF ~st.night_quiet_enabled
    THEN FALSE
    ELSE LET start == ParseTime(cfg.night_quiet.start)
             end == ParseTime(cfg.night_quiet.end)
             now_time == TimeOfDay(t)
         IN IF start <= end
              THEN start <= now_time /\ now_time < end
              ELSE now_time >= start \/ now_time < end

\* A guard that sets the level to the quiet maximum instead of capping it.
EnforceNightQuietForcingMax(level, st, cfg, t) ==
  IF IsWithinQuietHours(st, cfg, t)
    THEN LET capped == cfg.night_quiet.max_level
         IN [level |-> capped, capped |-> capped # level, active |-> TRUE]
    ELSE [level |-> level, capped |-> FALSE, active |-> FALSE]

\* enforce_night_quiet(level): the returned pair and the flag it stores.
EnforceNightQuiet(level, st, cfg, t) ==
  IF IsWithinQuietHours(st, cfg, t)
    THEN LET capped == Min(level, cfg.night_quiet.max_level)
         IN [level |-> capped, capped |-> capped # level, active |-> TRUE]
    ELSE [level |-> level, capped |-> FALSE, active |-> FALSE]

\* ---------------------------------------------------- manual-override timer
\* time.time(), in seconds.
TimeSec(t) == t * SecondsPerMinute

\* A schedule that takes override_minutes as it is, without the floor of 1.
ScheduleExpiryWithoutFloor(cfg, t) ==
  TimeSec(t) + cfg.auto_mode.override_minutes * SecondsPerMinute

\* schedule_manual_override: the expiry it stores.
ScheduleExpiry(cfg, t) ==
  TimeSec(t) + Max(1, cfg.auto_mode.override_minutes) * SecondsPerMinute

\* An override that ends one minute before its expiry.
ManualOverrideActiveEarly(st, t) ==
  LET expiry == st.manual_override_until
  IN IF expiry # None /\ expiry > TimeSec(t) + SecondsPerMinute
       THEN [active |-> TRUE, remaining |-> expiry - TimeSec(t), expired |-> FALSE]
       ELSE [active |-> FALSE, remaining |-> None,
             expired |-> expiry # None /\ expiry <= TimeSec(t)]

\* An override check that never clears a passed expiry.
ManualOverrideActiveKeeping(st, t) ==
  LET expiry == st.manual_override_until
  IN IF expiry # None /\ expiry > TimeSec(t)
       THEN [active |-> TRUE, remaining |-> expiry - TimeSec(t), expired |-> FALSE]
       ELSE [active |-> FALSE, remaining |-> None, expired |-> FALSE]

\* manual_override_active: (active, remaining) and whether it clears the expiry.
ManualOverrideActive(st, t) ==
  LET expiry == st.manual_override_until
  IN IF expiry # None /\ expiry > TimeSec(t)
       THEN [active |-> TRUE, remaining |-> expiry - TimeSec(t), expired |-> FALSE]
       ELSE [active |-> FALSE, remaining |-> None,
             expired |-> expiry # None /\ expiry <= TimeSec(t)]

\* ---------------------------------------------------------- learning offsets
\* sum(buf), max(deltas)
RECURSIVE SeqSum(_)
SeqSum(s) == IF s = << >> THEN 0 ELSE Head(s) + SeqSum(Tail(s))

RECURSIVE SeqMax(_)
SeqMax(s) == IF Len(s) = 1 THEN Head(s) ELSE Max(Head(s), SeqMax(Tail(s)))

\* The nearest integer to n / d (d > 0), ties to the even one.
RoundDiv(n, d) ==
  LET q == n \div d
      r == n % d
  IN IF 2 * r < d THEN q
     ELSE IF 2 * r > d THEN q + 1
     ELSE IF q % 2 = 0 THEN q ELSE q + 1

\* deque(maxlen=maxlen).append(x), maxlen >= 1.
DequeAppend(buf, x, maxlen) ==
  LET b == Append(buf, x)
  IN IF Len(b) > maxlen THEN Tail(b) ELSE b

\* The learning data update_learning_offsets works on: state["learning"]
\* ["offsets"], auto_state["diff_buffers"], auto_status.last_learning_update.
LearningOf(st, as) ==
  [offsets |-> st.learning.offsets,
   diff_buffers |-> as.diff_buffers,
   last_learning_update |-> st.auto_status.last_learning_update]

\* An update that does not wait for the buffer to fill.
UpdateLearningOffsetsEager(ls, entity, delta, cfg, t) ==
  LET maxlen == cfg.learning.sample_window
      buf == DequeAppend(ls.diff_buffers[entity], delta, maxlen)
      l1 == [ls EXCEPT !.diff_buffers[entity] = buf]
      d == Milli * Len(buf)
      max_offset == cfg.learning.max_offset
      new_val == ls.offsets[entity] * d + cfg.learning.adapt_rate * SeqSum(buf)
      clamped == Max(-max_offset * d, Min(max_offset * d, new_val))
  IN [l1 EXCEPT !.offsets[entity] = RoundDiv(clamped, d),
                !.last_learning_update = t]

\* An update that does not clamp the new offset.
UpdateLearningOffsetsUnclamped(ls, entity, delta, cfg, t) ==
  LET maxlen == cfg.learning.sample_window
      buf == DequeAppend(ls.diff_buffers[entity], delta, maxlen)
      l1 == [ls EXCEPT !.diff_buffers[entity] = buf]
  IN IF Len(buf) < maxlen
       THEN l1
       ELSE LET d == Milli * Len(buf)
                new_val == ls.offsets[entity] * d + cfg.learning.adapt_rate * SeqSum(buf)
            IN [l1 EXCEPT !.offsets[entity] = RoundDiv(new_val, d),
                          !.last_learning_update = t]

\* An update that adds adapt_rate times the buffer's sum, not its mean.
UpdateLearningOffsetsSummed(ls, entity, delta, cfg, t) ==
  LET maxlen == cfg.learning.sample_window
      buf == DequeAppend(ls.diff_buffers[entity], delta, maxlen)
      l1 == [ls EXCEPT !.diff_buffers[entity] = buf]
  IN IF Len(buf) < maxlen
       THEN l1
       ELSE LET d == Milli
                max_offset == cfg.learning.max_offset
                new_val == ls.offsets[entity] * d + cfg.learning.adapt_rate * SeqSum(buf)
                clamped == Max(-max_offset * d, Min(max_offset * d, new_val))
            IN [l1 EXCEPT !.offsets[entity] = RoundDiv(clamped, d),
                          !.last_learning_update = t]

\* update_learning_offsets(entity, delta) at time t. The new offset is
\* offset + (adapt_rate / 1000) * (sum(buf) / len(buf)), held here as the
\* numerator over d = 1000 * len(buf).
UpdateLearningOffsets(ls, entity, delta, cfg, t) ==
  LET maxlen == cfg.learning.sample_window
      buf == DequeAppend(ls.diff_buffers[entity], delta, maxlen)
      l1 == [ls EXCEPT !.diff_buffers[entity] = buf]
  IN IF Len(buf) < maxlen
       THEN l1
       ELSE LET d == Milli * Len(buf)
                max_offset == cfg.learning.max_offset
                new_val == ls.offsets[entity] * d + cfg.learning.adapt_rate * SeqSum(buf)
                clamped == Max(-max_offset * d, Min(max_offset * d, new_val))
            IN [l1 EXCEPT !.offsets[entity] = RoundDiv(clamped, d),
                          !.last_learning_update = t]

\* --------------------------------------------------------- adaptive decision
\* A humidity snapshot: the empty dict, or a value (or None) per sensor.
NoHumidity == [empty |-> TRUE, value |-> [e \in Sensors |-> None]]
Humidity(v1, v2) ==
  [empty |-> FALSE, value |-> [e \in Sensors |-> IF e = SensorOrder[1] THEN v1 ELSE v2]]

\* humidity_map.get(entity)
HumidityGet(h, entity) == IF h.empty THEN None ELSE h.value[entity]

\* A decision whose average branch compares with the medium threshold itself.
DetermineLevelFullMedium(max_delta, sum_delta, count, aggressiveness) ==
  LET high_threshold == IF aggressiveness = "calm" THEN 8000 ELSE 6000
      medium_threshold == IF aggressiveness = "calm" THEN 4000 ELSE 3000
      low_threshold == IF aggressiveness = "aggressive" THEN -3000 ELSE -1500
  IN IF max_delta >= high_threshold THEN 4
     ELSE IF max_delta >= medium_threshold \/ sum_delta >= medium_threshold * count THEN 3
     ELSE IF sum_delta <= low_threshold * count THEN 1
     ELSE 2

\* determine_auto_level's thresholds and branches, on deltas in thousandths;
\* avg_delta is sum_delta / count, compared without dividing.
DetermineLevel(max_delta, sum_delta, count, aggressiveness) ==
  LET high_threshold == IF aggressiveness = "calm" THEN 8000 ELSE 6000
      medium_threshold == IF aggressiveness = "calm" THEN 4000 ELSE 3000
      low_threshold == IF aggressiveness = "aggressive" THEN -3000 ELSE -1500
  IN IF max_delta >= high_threshold THEN 4
     ELSE IF max_delta >= medium_threshold \/ 2 * sum_delta >= medium_threshold * count THEN 3
     ELSE IF sum_delta <= low_threshold * count THEN 1
     ELSE 2

\* A loop that takes a missing value as a reading at the target (delta 0).
RECURSIVE FeedSensorsCountingMissing(_, _, _, _, _)
FeedSensorsCountingMissing(i, h, acc, cfg, t) ==
  IF i > Len(SensorOrder)
    THEN acc
    ELSE LET entity == SensorOrder[i]
             value == HumidityGet(h, entity)
             target == cfg.humidity_targets[entity]
             offset == acc.ls.offsets[entity]
             delta == IF value = None THEN 0 ELSE value - (target + offset)
         IN FeedSensorsCountingMissing(i + 1, h,
                                       [deltas |-> Append(acc.deltas, delta),
                                        ls |-> UpdateLearningOffsets(acc.ls, entity, delta, cfg, t)],
                                       cfg, t)

\* determine_auto_level's loop over SENSOR_ENTITIES from position i on:
\* the deltas collected and the learning data after each sensor was fed.
RECURSIVE FeedSensors(_, _, _, _, _)
FeedSensors(i, h, acc, cfg, t) ==
  IF i > Len(SensorOrder)
    THEN acc
    ELSE LET entity == SensorOrder[i]
             value == HumidityGet(h, entity)
         IN IF value = None
              THEN FeedSensors(i + 1, h, acc, cfg, t)
              ELSE LET target == cfg.humidity_targets[entity]
                       offset == acc.ls.offsets[entity]
                       delta == value - (target + offset)
                   IN FeedSensors(i + 1, h,
                                  [deltas |-> Append(acc.deltas, delta),
                                   ls |-> UpdateLearningOffsets(acc.ls, entity, delta, cfg, t)],
                                  cfg, t)

\* The humidity snapshots a tick of the controller may see.
HumiditySamples ==
  {NoHumidity} \cup
  {Humidity(v[1], v[2]) :
     v \in {<<62000, None>>, <<60000, 52000>>, <<55000, 55000>>, <<53000, 53000>>}}

\* determine_auto_level(humidity_map): the level, the kind of reason, the
\* deltas it aggregated and the learning data it leaves.
DetermineAutoLevel(h, ls, cfg, t) ==
  IF h.empty
    THEN [level |-> 2, reason |-> "nodata", deltas |-> << >>, ls |-> ls]
    ELSE LET r == FeedSensors(1, h, [deltas |-> << >>, ls |-> ls], cfg, t)
         IN IF r.deltas = << >>
              THEN [level |-> 2, reason |-> "novalid", deltas |-> << >>, ls |-> r.ls]
              ELSE [level |-> DetermineLevel(SeqMax(r.deltas), SeqSum(r.deltas),
                                             Len(r.deltas), cfg.auto_mode.aggressiveness),
                    reason |-> "delta", deltas |-> r.deltas, ls |-> r.ls]

\* --------------------------------------------------- Device State updates
\* A level commit that leaves boost_inhibit as it was.
LevelCommitKeepingInhibit(st, level, t) ==
  [st EXCEPT !.boost_active = (level = 4),
             !.current_level = level,
             !.level_start_time = t]

\* apply_level_strategy's state_lock section after the last step.
LevelCommit(st, level, t) ==
  [st EXCEPT !.boost_inhibit = (level \in {1, 2}),
             !.boost_active = (level = 4),
             !.current_level = level,
             !.level_start_time = t]

\* turn_off_all_levels' state_lock section after the last step.
OffCommit(st) ==
  [st EXCEPT !.current_level = None,
             !.boost_active = FALSE,
             !.boost_inhibit = FALSE,
             !.level_start_time = None]

\* A boost commit that does not move current_level to 4.
BoostCommitKeepingLevel(st, new_state, t) ==
  [st EXCEPT !.boost_active = new_state,
             !.level_start_time = IF new_state THEN t ELSE @]

\* api_toggle_boost's state_lock section after its send succeeded.
BoostCommit(st, new_state, t) ==
  [st EXCEPT !.boost_active = new_state,
             !.current_level = IF new_state THEN 4 ELSE @,
             !.level_start_time = IF new_state THEN t ELSE @]

CommitState(st, o, t) ==
  CASE o.kind = "level" -> LevelCommit(st, o.level, t)
    [] o.kind = "off" -> OffCommit(st)
    [] o.kind = "boost" -> BoostCommit(st, o.new_state, t)

\* ------------------------------------------------------------ initial state
\* DEFAULT_SETTINGS, the sections the controller reads.
DefaultSettings ==
  [auto_mode |-> [enabled |-> FALSE, override_minutes |-> 15, aggressiveness |-> "balanced"],
   night_quiet |-> [enabled |-> TRUE, start |-> <<21, 0>>, end |-> <<8, 0>>, max_level |-> 2],
   humidity_targets |-> [e \in Sensors |-> DefaultTarget],
   ha |-> [url |-> "http://192.168.1.166:8123", token |-> "", timeout |-> 5,
           poll_seconds |-> 30],
   learning |-> [adapt_rate |-> 80, max_offset |-> 8000, sample_window |-> 12]]

\* What SETTINGS_PATH holds: no file, or the object last written to it.
NoFile == [exists |-> FALSE, data |-> << >>]
Written(cfg) == [exists |-> TRUE, data |-> cfg]

\* The dict `state` as the module builds it from the loaded settings.
InitialState(cfg) ==
  [current_level |-> None,
   boost_active |-> FALSE,
   boost_inhibit |-> FALSE,
   last_command |-> << >>,
   last_command_time |-> None,
   level_start_time |-> None,
   mode |-> "manual",
   auto_enabled |-> cfg.auto_mode.enabled,
   manual_override_until |-> None,
   night_quiet_enabled |-> cfg.night_quiet.enabled,
   night_quiet_active |-> FALSE,
   metrics |-> [max_delta |-> None, time_in_range_pct |-> None],
   auto_status |-> [recommended_level |-> None, applied_level |-> None,
                    reason |-> "", capped |-> FALSE, last_learning_update |-> None],
   learning |-> [offsets |-> [e \in Sensors |-> 0]]]

\* The dict `auto_state` as the module builds it.
InitialAutoState == [diff_buffers |-> [e \in Sensors |-> << >>]]

\* A thread that runs no device operation. `out` is the outcome of the
\* thread's latest serial transaction, `tx` the frames the current
\* send_command call has written, `cmds` the send_command calls the
\* operation has made, `quiet` whether the latest transaction that opened
\* the port ran wait_for_quiet_period before its write, `expiry` the
\* manual_override_until that manual_override_active read into its local.
NoOp ==
  [kind |-> "none", level |-> None, step |-> 0, retry |-> 0, tx |-> 0,
   cmds |-> << >>, new_state |-> FALSE, quiet |-> FALSE,
   out |-> [fault |-> "none", resp |-> << >>],
   current_level |-> None, expiry |-> None]

\* The wall clock when the program starts: one minute before the default
\* quiet window opens.
StartClock == ParseTime(<<20, 59>>)

\* settings_lock, state_lock and log_lock; Free when no thread holds one.
LockNames == {"settings_lock", "state_lock", "log_lock"}
Free == "free"

\* The background workers besides the controller: update_sensors_loop and
\* environment_monitor_loop. `reg` is the register the sensor worker reads
\* next; `humidity_map` and `metrics` are the telemetry worker's locals and
\* `accesses` the shared structures its latest step touched.
SensorRegisters == <<"030", "031", "032", "036", "060", "061">>

InitialWorkers ==
  [sensors |-> [pc |-> "idle", reg |-> 1],
   monitor |-> [pc |-> "idle", humidity_map |-> NoHumidity, metrics |-> None,
                accesses |-> {}]]

\* No send_command call encoded a frame yet.
NoWire == [addr |-> << >>, val |-> None, frame |-> << >>]

\* No call returned in the latest step.
NoResult == [thread |-> "", fn |-> "", value |-> "none"]

\* Function fn, run by thread t, returned value.
Returned(t, fn, value) == [thread |-> t, fn |-> fn, value |-> value]

\* The function that carries out operation o.
OpFunction(o) ==
  CASE o.kind = "level" -> "apply_level_strategy"
    [] o.kind = "off" -> "turn_off_all_levels"
    [] o.kind = "boost" -> "send_command"

\* Nothing was written to a level register since the program started.
NoDevice == [r \in LevelRegisters |-> None]

\* No lock held, the port closed, the rings empty, the workers not started.
InitPlant ==
  /\ history_buffer = << >>
  /\ log_buffer = << >>
  /\ serial = {}
  /\ locks = [l \in LockNames |-> Free]
  /\ workers = InitialWorkers
  /\ wire = NoWire
  /\ device = NoDevice

InitThreads ==
  /\ logged = << >>
  /\ pc = [t \in Threads |-> "idle"]
  /\ op = [t \in Threads |-> NoOp]
  /\ result = NoResult
  /\ ops = 0
  /\ settings_file = Written(settings)
  /\ InitPlant

Init ==
  /\ settings = DefaultSettings
  /\ state = InitialState(settings)
  /\ auto_state = InitialAutoState
  /\ now = StartClock
  /\ InitThreads

\* A handler invocation or a controller tick begins.
BeginOp == ops < MaxOps /\ ops' = ops + 1

\* ------------------------------------------------------------ send_command
\* The send the thread's operation is at.
CurrentStep(o) == Steps(o)[o.step]

\* A caller's loop that ignores a step's failure and goes on.
AfterFailedStepContinue(o) ==
  IF o.step < Len(Steps(o))
    THEN [pc |-> "send", op |-> [o EXCEPT !.step = @ + 1, !.retry = 0]]
    ELSE [pc |-> "commit", op |-> o]

\* What the caller's loop does once a step's send_command returned False:
\* it returns False itself, and so does the handler (the operation is over).
AfterFailedStep(o) == [pc |-> "idle", op |-> NoOp]

\* What the caller's loop does once a step's send_command returned True.
AfterSentStep(o) ==
  IF o.step < Len(Steps(o))
    THEN [pc |-> "send", op |-> [o EXCEPT !.step = @ + 1, !.retry = 0]]
    ELSE [pc |-> "commit", op |-> o]

\* The error entries a failed send leaves: send_command's own, then the
\* caller's (apply_level_strategy, turn_off_all_levels; api_toggle_boost logs none).
FailureLog(o, s) ==
  LET b == <<Entry("error", "Serial command failed", "", None, s.addr, s.val)>>
  IN CASE o.kind = "level" ->
            AppendLog(b, Entry("error", "Level strategy step failed", s.label, o.level, "", None))
       [] o.kind = "off" ->
            AppendLog(b, Entry("error", "Turn off step failed", s.label, None, "", None))
       [] OTHER -> b

\* One serial transaction of send_command(addr, val, retry) with outcome out,
\* and what the caller does when the call returns.
SendStep(t, out) ==
  LET o == op[t]
      s == CurrentStep(o)
      o1 == [o EXCEPT !.tx = (IF o.retry = 0 THEN 0 ELSE @)
                             + (IF out.fault = "open" THEN 0 ELSE 1),
                      !.cmds = IF o.retry = 0 THEN Append(@, Cmd(s)) ELSE @,
                      !.quiet = IF out.fault = "open" THEN @ ELSE s.addr \in GatedRegisters,
                      !.out = out]
  IN IF out.fault # "none"
       THEN /\ logged' = FailureLog(o1, s)
            /\ pc' = [pc EXCEPT ![t] = AfterFailedStep(o1).pc]
            /\ op' = [op EXCEPT ![t] = AfterFailedStep(o1).op]
            /\ result' = Returned(t, OpFunction(o), "False")
            /\ UNCHANGED <<state, settings, now>>
       ELSE IF SendVerdict(s.addr, out.resp, o.retry) = "retry"
         THEN /\ op' = [op EXCEPT ![t] = [o1 EXCEPT !.retry = @ + 1]]
              /\ logged' = << >>
              /\ result' = NoResult
              /\ UNCHANGED <<state, settings, now, pc>>
         ELSE /\ state' = SendRecord(state, s.addr, s.val, now)
              /\ pc' = [pc EXCEPT ![t] = AfterSentStep(o1).pc]
              /\ op' = [op EXCEPT ![t] = AfterSentStep(o1).op]
              /\ logged' = << >>
              /\ result' = NoResult
              /\ UNCHANGED <<settings, now>>

\* The link answers with the echo of the register written, or fails to open.
CleanOutcomes(t) ==
  {[fault |-> "none", resp |-> RegToken(CurrentStep(op[t]).addr)],
   [fault |-> "open", resp |-> << >>]}

\* A serial transaction of thread t whose outcome is one of outs.
SendAttempt(t, outs) ==
  /\ pc[t] = "send"
  /\ \E out \in outs : SendStep(t, out)
  /\ UNCHANGED <<ops, auto_state, settings_file, plant>>

\* ------------------------------------------------- apply_level_strategy etc.
\* apply_level_strategy(level) up to its first send: the strategy lookup.
\* st and buf are state and this step's log entries as the caller left them.
BeginStrategy(t, level, st, buf) ==
  IF Strategies(level) = << >>
    THEN /\ state' = st
         /\ logged' = AppendLog(buf, Entry("error", "Invalid strategy requested", "", level, "", None))
         /\ pc' = [pc EXCEPT ![t] = "idle"]
         /\ op' = [op EXCEPT ![t] = NoOp]
         /\ result' = Returned(t, "apply_level_strategy", "False")
    ELSE /\ state' = st
         /\ logged' = buf
         /\ pc' = [pc EXCEPT ![t] = "send"]
         /\ op' = [op EXCEPT ![t] = [NoOp EXCEPT !.kind = "level", !.level = level, !.step = 1]]
         /\ result' = NoResult

\* turn_off_all_levels() up to its first send.
BeginTurnOff(t, st, buf) ==
  /\ state' = st
  /\ logged' = buf
  /\ pc' = [pc EXCEPT ![t] = "send"]
  /\ op' = [op EXCEPT ![t] = [NoOp EXCEPT !.kind = "off", !.step = 1]]
  /\ result' = NoResult

\* The log entry written right after the Device State update.
CommitLog(o) ==
  CASE o.kind = "level" -> <<Entry("control", "Level applied", "", o.level, "", None)>>
    [] o.kind = "off" -> <<Entry("control", "All levels turned off", "", None, "", None)>>
    [] OTHER -> << >>

\* The state_lock section that ends a successful operation; the operation
\* returns True to its caller.
Commit(t) ==
  /\ pc[t] = "commit"
  /\ state' = CommitState(state, op[t], now)
  /\ logged' = CommitLog(op[t])
  /\ pc' = [pc EXCEPT ![t] = IF t = "auto" THEN "applied" ELSE "sched"]
  /\ result' = Returned(t, OpFunction(op[t]), "True")
  /\ UNCHANGED <<settings, auto_state, now, op, ops, settings_file, plant>>

\* ------------------------------------------------------------ API handlers
\* POST /api/level/<level>
ApiSetLevel(level) ==
  /\ pc["api"] = "idle"
  /\ BeginOp
  /\ UNCHANGED <<auto_state, settings_file, plant>>
  /\ IF level \notin {1, 2, 3, 4}
       THEN /\ op' = [op EXCEPT !["api"] = NoOp]
            /\ result' = Returned("api", "api_set_level", "400")
            /\ logged' = << >>
            /\ UNCHANGED <<state, settings, now, pc>>
       ELSE LET q == EnforceNightQuiet(level, state, settings, now)
                st == [state EXCEPT !.night_quiet_active = q.active]
                buf == IF q.capped
                         THEN <<Entry("mode", "Requested level capped due to quiet hours",
                                      "", q.level, "", None)>>
                         ELSE << >>
            IN /\ BeginStrategy("api", q.level, st, buf)
               /\ UNCHANGED <<settings, now>>

\* POST /api/off
ApiTurnOff ==
  /\ pc["api"] = "idle"
  /\ BeginOp
  /\ BeginTurnOff("api", state, << >>)
  /\ UNCHANGED <<settings, auto_state, now, settings_file, plant>>

\* POST /api/boost, up to its send, handled by request thread t: new_state
\* is read under state_lock.
ApiToggleBoostBy(t) ==
  /\ pc[t] = "idle"
  /\ BeginOp
  /\ pc' = [pc EXCEPT ![t] = "send"]
  /\ op' = [op EXCEPT ![t] =
              [NoOp EXCEPT !.kind = "boost", !.step = 1, !.new_state = ~state.boost_active]]
  /\ result' = NoResult
  /\ logged' = << >>
  /\ UNCHANGED <<state, settings, auto_state, now, settings_file, plant>>

ApiToggleBoost == ApiToggleBoostBy("api")

\* What a manual handler, run by request thread t, does after its device
\* operation succeeded: schedule_manual_override(), and api_toggle_boost's
\* own log entry.
ApiScheduleBy(t) ==
  /\ pc[t] = "sched"
  /\ state' = [state EXCEPT !.manual_override_until = ScheduleExpiry(settings, now)]
  /\ logged' =
       LET b == <<Entry("mode", "Manual override active", "", None, "",
                        Max(1, settings.auto_mode.override_minutes))>>
       IN IF op[t].kind = "boost"
            THEN AppendLog(b, Entry("control",
                                    IF op[t].new_state THEN "Boost ON" ELSE "Boost OFF",
                                    "", None, "", None))
            ELSE b
  /\ pc' = [pc EXCEPT ![t] = "idle"]
  /\ op' = [op EXCEPT ![t] = NoOp]
  /\ result' = Returned(t, "handler", "200")
  /\ UNCHANGED <<settings, auto_state, now, ops, settings_file, plant>>

ApiSchedule == ApiScheduleBy("api")

\* POST /api/auto/toggle
ApiToggleAuto(enabled) ==
  /\ pc["api"] = "idle"
  /\ BeginOp
  /\ state' = [state EXCEPT !.auto_enabled = enabled,
                            !.mode = IF enabled THEN "auto" ELSE "manual"]
  /\ settings' = [settings EXCEPT !.auto_mode.enabled = enabled]
  /\ locks["settings_lock"] = Free
  /\ settings_file' = Written(settings')
  /\ logged' = <<Entry("mode", IF enabled THEN "Auto mode enabled via UI"
                                          ELSE "Auto mode disabled via UI",
                       "", None, "", None)>>
  /\ result' = Returned("api", "api_toggle_auto", "200")
  /\ UNCHANGED <<auto_state, now, pc, op, plant>>

\* -------------------------------------------------------- adaptive controller
\* A tick that reports in auto_status that automatic mode is off.
AutoReadReporting ==
  /\ pc["auto"] = "idle"
  /\ IF ~state.auto_enabled
       THEN /\ state' = [state EXCEPT !.auto_status.recommended_level = None,
                                      !.auto_status.reason = "disabled"]
            /\ UNCHANGED <<pc, op, ops>>
       ELSE /\ BeginOp
            /\ pc' = [pc EXCEPT !["auto"] = "decide"]
            /\ op' = [op EXCEPT !["auto"] = [NoOp EXCEPT !.current_level = state.current_level]]
            /\ UNCHANGED state
  /\ logged' = << >>
  /\ result' = NoResult
  /\ UNCHANGED <<settings, auto_state, now, settings_file, plant>>

\* auto_controller_loop: the first state_lock section of a tick.
AutoRead ==
  /\ pc["auto"] = "idle"
  /\ IF ~state.auto_enabled
       THEN UNCHANGED <<pc, op, ops>>
       ELSE /\ BeginOp
            /\ pc' = [pc EXCEPT !["auto"] = "decide"]
            /\ op' = [op EXCEPT !["auto"] = [NoOp EXCEPT !.current_level = state.current_level]]
  /\ logged' = << >>
  /\ result' = NoResult
  /\ UNCHANGED <<state, settings, auto_state, now, settings_file, plant>>

\* The tick from the answer ov of manual_override_active() up to its first
\* send: the decision from humidity reading h, the night-quiet cap,
\* auto_status. An expired override is cleared in state as it is now.
AutoDecideWith(h, ov) ==
  /\ LET current_level == op["auto"].current_level
     IN IF ov.active
          THEN /\ state' = [state EXCEPT !.auto_status.recommended_level = None,
                                         !.auto_status.reason = "override",
                                         !.auto_status.capped = FALSE]
               /\ pc' = [pc EXCEPT !["auto"] = "idle"]
               /\ op' = [op EXCEPT !["auto"] = NoOp]
               /\ logged' = << >>
               /\ result' = NoResult
               /\ UNCHANGED auto_state
          ELSE LET st0 == IF ov.expired
                            THEN [state EXCEPT !.manual_override_until = None]
                            ELSE state
                   buf == IF ov.expired
                            THEN <<Entry("mode", "Manual override window expired; auto mode resumes",
                                         "", None, "", None)>>
                            ELSE << >>
                   d == DetermineAutoLevel(h, LearningOf(st0, auto_state), settings, now)
                   q == EnforceNightQuiet(d.level, st0, settings, now)
                   st1 == [st0 EXCEPT !.learning.offsets = d.ls.offsets,
                                      !.auto_status.last_learning_update =
                                         d.ls.last_learning_update,
                                      !.night_quiet_active = q.active,
                                      !.auto_status.recommended_level = q.level,
                                      !.auto_status.reason = d.reason,
                                      !.auto_status.capped = q.capped]
               IN /\ auto_state' = [auto_state EXCEPT !.diff_buffers = d.ls.diff_buffers]
                  /\ IF q.level # current_level
                       THEN IF q.level = 0
                              THEN BeginTurnOff("auto", st1, buf)
                              ELSE BeginStrategy("auto", q.level, st1, buf)
                       ELSE /\ state' = [st1 EXCEPT !.auto_status.applied_level = current_level]
                            /\ logged' = buf
                            /\ pc' = [pc EXCEPT !["auto"] = "idle"]
                            /\ op' = [op EXCEPT !["auto"] = NoOp]
                            /\ result' = NoResult
  /\ UNCHANGED <<settings, now, ops, settings_file, plant>>

\* The rest of the tick up to its first send, the override check being one
\* step: manual_override_until is read, compared and cleared at once.
AutoDecide(h) ==
  /\ pc["auto"] = "decide"
  /\ AutoDecideWith(h, ManualOverrideActive(state, now))

\* manual_override_active(), its first state_lock section: the expiry is
\* read into a local and the lock released.
ManualOverrideRead ==
  /\ pc["auto"] = "decide"
  /\ pc' = [pc EXCEPT !["auto"] = "expiry"]
  /\ op' = [op EXCEPT !["auto"].expiry = state.manual_override_until]
  /\ logged' = << >>
  /\ result' = NoResult
  /\ UNCHANGED <<state, settings, auto_state, now, ops, settings_file, plant>>

\* manual_override_active() from there on, and the rest of the tick up to
\* its first send: the local expiry is compared with the clock, and an
\* expired one makes the second state_lock section clear
\* manual_override_until, whatever it holds by then.
AutoDecideAfterRead(h) ==
  /\ pc["auto"] = "expiry"
  /\ AutoDecideWith(h, ManualOverrideActive(
                          [state EXCEPT !.manual_override_until = op["auto"].expiry], now))

\* After the tick's device operation returned True: applied_level and the log.
AutoApplied ==
  /\ pc["auto"] = "applied"
  /\ LET applied == IF op["auto"].kind = "off" THEN 0 ELSE op["auto"].level
     IN /\ state' = [state EXCEPT !.auto_status.applied_level = applied]
        /\ logged' = <<Entry("auto", IF applied = 0 THEN "Auto mode turned Titon OFF"
                                                    ELSE "Auto mode set Level",
                             "", applied, "", None)>>
  /\ pc' = [pc EXCEPT !["auto"] = "idle"]
  /\ op' = [op EXCEPT !["auto"] = NoOp]
  /\ result' = NoResult
  /\ UNCHANGED <<settings, auto_state, now, ops, settings_file, plant>>

\* ------------------------------------------------------------- the two rings
\* deque(maxlen=maxlen).appendleft(x) that forgets its bound.
DequeAppendLeftUnbounded(buf, x, maxlen) == <<x>> \o buf

\* deque(maxlen=maxlen).appendleft(x), maxlen >= 1.
DequeAppendLeft(buf, x, maxlen) ==
  LET b == <<x>> \o buf
  IN IF Len(b) > maxlen THEN SubSeq(b, 1, maxlen) ELSE b

\* append_log once per entry of es, in order, on the ring buf.
RECURSIVE AppendLogs(_, _)
AppendLogs(buf, es) ==
  IF es = << >> THEN buf
  ELSE AppendLogs(DequeAppendLeft(buf, Head(es), LogMaxlen), Tail(es))

\* A history sample. `ts` is the sample's sequence number, standing for
\* its timestamp; avg_humidity, max_humidity and avg_delta are not modelled.
Sample(ts, level, max_delta) == [ts |-> ts, level |-> level, max_delta |-> max_delta]

\* The sequence number the next sample gets.
NextTs(buf) == IF buf = << >> THEN 1 ELSE buf[Len(buf)].ts + 1

\* valid_entries and `within` of record_history, as index sets.
ValidEntries(buf) == {i \in 1..Len(buf) : buf[i].max_delta # None}
Within(buf) == {i \in ValidEntries(buf) : buf[i].max_delta <= 0}

\* A percentage that counts the samples without max_delta as out of range.
TimeInRangePctOverAll(buf) ==
  IF ValidEntries(buf) = {} THEN None
  ELSE RoundDiv(Cardinality(Within(buf)) * 1000, Len(buf))

\* round(within / len(valid_entries) * 100, 1), in tenths of a percent.
TimeInRangePct(buf) ==
  IF ValidEntries(buf) = {} THEN None
  ELSE RoundDiv(Cardinality(Within(buf)) * 1000, Cardinality(ValidEntries(buf)))

\* ------------------------------------------------------------ telemetry worker
\* An access to a shared structure and the locks held while it is made.
Access(structure, kind, held) == [structure |-> structure, kind |-> kind, held |-> held]

\* The sensors the provider raised for, in SENSOR_ENTITIES order.
FailedOrder(failed) ==
  SelectSeq(SensorOrder, LAMBDA e : e \in failed)

\* fetch_home_assistant_humidity through HA_STATE_PROVIDER: the provider
\* answers h; for the sensors in `failed` it raised, which is logged.
MonitorFetch(h, failed) ==
  /\ workers.monitor.pc = "idle"
  /\ BeginOp
  /\ failed \subseteq {e \in Sensors : HumidityGet(h, e) = None}
  /\ h.empty => failed = {}
  /\ locks["log_lock"] = Free
  /\ LET es == [i \in 1..Len(FailedOrder(failed)) |->
                 Entry("error", "HA provider failed", FailedOrder(failed)[i], None, "", None)]
     IN /\ log_buffer' = AppendLogs(log_buffer, es)
        /\ workers' = [workers EXCEPT
              !.monitor.pc = "fetched",
              !.monitor.humidity_map = h,
              !.monitor.accesses =
                 IF failed = {} THEN {}
                 ELSE {Access("log_buffer", "write", {"log_lock"})}]
  /\ UNCHANGED <<state, settings, auto_state, now, logged, pc, op, result,
                 settings_file, history_buffer, serial, locks, wire, device>>

\* update_metrics_from_humidity's max_delta: round(max(deltas), 2), or None.
MetricsMaxDelta(h, st, cfg) ==
  LET valid == {e \in Sensors : HumidityGet(h, e) # None}
      delta(e) == HumidityGet(h, e) - (cfg.humidity_targets[e] + st.learning.offsets[e])
  IN IF valid = {} THEN None
     ELSE LET mx == CHOOSE d \in {delta(e) : e \in valid} : \A e \in valid : delta(e) <= d
          IN RoundDiv(mx, 10) * 10

\* update_metrics_from_humidity, state["ha_humidity"] = humidity_map and
\* record_history of one iteration of environment_monitor_loop.
MonitorRecord ==
  /\ workers.monitor.pc = "fetched"
  /\ locks["state_lock"] = Free
  /\ LET h == workers.monitor.humidity_map
         max_delta == MetricsMaxDelta(h, state, settings)
         entry == Sample(NextTs(history_buffer), state.current_level, max_delta)
         buf == DequeAppend(history_buffer, entry, HistoryMaxlen)
     IN /\ history_buffer' = buf
        /\ state' = [state EXCEPT !.metrics.max_delta = max_delta,
                                  !.metrics.time_in_range_pct = TimeInRangePct(buf)]
        /\ workers' = [workers EXCEPT
              !.monitor.pc = "recorded",
              !.monitor.metrics = max_delta,
              !.monitor.accesses =
                 (IF max_delta = None THEN {}
                  ELSE {Access("settings", "read", {}), Access("offsets", "read", {})})
                 \cup {Access("state", "write", {"state_lock"}),
                       Access("state", "read", {}),
                       Access("history_buffer", "write", {}),
                       Access("history_buffer", "read", {})}]
  /\ UNCHANGED <<settings, auto_state, now, logged, pc, op, result, ops,
                 settings_file, log_buffer, serial, locks, wire, device>>

\* The end of the iteration: poll_seconds is read under settings_lock, and
\* the worker sleeps.
MonitorSleep ==
  /\ workers.monitor.pc = "recorded"
  /\ locks["settings_lock"] = Free
  /\ workers' = [workers EXCEPT
        !.monitor.pc = "idle",
        !.monitor.accesses = {Access("settings", "read", {"settings_lock"})}]
  /\ UNCHANGED <<state, settings, auto_state, now, logged, pc, op, result, ops,
                 settings_file, history_buffer, log_buffer, serial, locks, wire, device>>

\* ------------------------------------------------------------ the serial port
\* The transaction of send_command in two steps. First
\* `with serial.Serial(PORT, BAUD, timeout=2) as ser:` succeeds: thread t
\* has the port open. No lock is taken, and the port is not opened for
\* exclusive use, so the open does not wait for another thread's close.
SendOpen(t) ==
  /\ pc[t] = "send"
  /\ pc' = [pc EXCEPT ![t] = "link"]
  /\ serial' = serial \cup {t}
  /\ logged' = << >>
  /\ result' = NoResult
  /\ UNCHANGED <<state, settings, auto_state, now, op, ops, settings_file,
                 history_buffer, log_buffer, locks, workers, wire, device>>

\* Then the write, the read (the register's echo) and the end of the
\* with-block, which closes the port.
SendClose(t) ==
  /\ pc[t] = "link"
  /\ SendStep(t, [fault |-> "none", resp |-> RegToken(CurrentStep(op[t]).addr)])
  /\ serial' = serial \ {t}
  /\ UNCHANGED <<ops, auto_state, settings_file,
                 history_buffer, log_buffer, locks, workers, wire, device>>

\* read_sensor(addr) of update_sensors_loop: the port is opened,
SensorsOpen ==
  /\ workers.sensors.pc = "idle"
  /\ workers' = [workers EXCEPT !.sensors.pc = "link"]
  /\ serial' = serial \cup {"sensors"}
  /\ logged' = << >>
  /\ result' = NoResult
  /\ UNCHANGED <<state, settings, auto_state, now, pc, op, ops, settings_file,
                 history_buffer, log_buffer, locks, wire, device>>

\* and closed after the read; the worker goes on to the next register
\* (the values read are kept in state["sensors"], which is not modelled).
SensorsClose ==
  /\ workers.sensors.pc = "link"
  /\ workers' = [workers EXCEPT
        !.sensors.pc = "idle",
        !.sensors.reg = IF @ = Len(SensorRegisters) THEN 1 ELSE @ + 1]
  /\ serial' = serial \ {"sensors"}
  /\ logged' = << >>
  /\ result' = NoResult
  /\ UNCHANGED <<state, settings, auto_state, now, pc, op, ops, settings_file,
                 history_buffer, log_buffer, locks, wire, device>>

\* ------------------------------------------------------- settings persistence
\* A JSON value as json.load returns it: an object (dict) with its items,
\* or anything else (a number, a string, null, a list).
Dict(items) == [tag |-> "dict", items |-> items, val |-> None]
Scalar(val) == [tag |-> "scalar", items |-> << >>, val |-> val]

\* json.loads(json.dumps(DEFAULT_SETTINGS)): every section is an object of
\* scalars.
JsonDefaults ==
  [k \in DOMAIN DefaultSettings |->
     Dict([j \in DOMAIN DefaultSettings[k] |-> Scalar(DefaultSettings[k][j])])]

\* dict.update
DictUpdate(d, v) ==
  [k \in DOMAIN d \cup DOMAIN v |-> IF k \in DOMAIN v THEN v[k] ELSE d[k]]

\* The loop of ensure_setting_structure over data.items().
Merge(merged, data) ==
  [key \in DOMAIN merged \cup DOMAIN data |->
     IF key \notin DOMAIN data THEN merged[key]
     ELSE IF data[key].tag = "dict" /\ key \in DOMAIN merged
       THEN Dict(DictUpdate(merged[key].items, data[key].items))
       ELSE data[key]]

\* ensure_setting_structure(data): the merged object, or `raised` when
\* targets.setdefault is called on a value that is not a dict.
EnsureSettingStructure(data) ==
  LET merged == Merge(JsonDefaults, data)
      targets == merged["humidity_targets"]
  IN IF targets.tag # "dict"
       THEN [raised |-> TRUE, value |-> << >>]
       ELSE [raised |-> FALSE,
             value |-> [merged EXCEPT !["humidity_targets"] =
                          Dict([e \in DOMAIN targets.items \cup Sensors |->
                                  IF e \in DOMAIN targets.items THEN targets.items[e]
                                  ELSE Scalar(DefaultTarget)])]]

\* load_settings(): the merged file, or the defaults when there is no file
\* or the merge raised.
LoadSettings(file) ==
  IF ~file.exists THEN JsonDefaults
  ELSE LET r == EnsureSettingStructure(file.data)
       IN IF r.raised THEN JsonDefaults ELSE r.value

\* Module start: settings = load_settings(), and save_settings() when
\* there is no file.
Startup ==
  /\ settings' = LoadSettings(settings_file)
  /\ settings_file' = IF settings_file.exists THEN settings_file ELSE Written(settings')
  /\ result' = Returned("main", "load_settings", "loaded")
  /\ logged' = << >>
  /\ UNCHANGED <<state, auto_state, now, pc, op, ops, plant>>

\* save_settings(): the whole of `settings` goes to the file.
SaveSettings ==
  /\ result.thread = "main"
  /\ locks["settings_lock"] = Free
  /\ settings_file' = Written(settings)
  /\ result' = Returned("main", "save_settings", "saved")
  /\ logged' = << >>
  /\ UNCHANGED <<state, settings, auto_state, now, pc, op, ops, plant>>

\* send_command(addr, val) up to cmd_bytes, for the arguments in `wire`.
SendCommandEncode ==
  /\ wire.frame = << >>
  /\ wire' = [wire EXCEPT !.frame = EncodeFrame(wire.addr, wire.val)]
  /\ result' = NoResult
  /\ logged' = << >>
  /\ UNCHANGED <<state, settings, auto_state, now, pc, op, ops, settings_file,
                 history_buffer, log_buffer, serial, locks, workers, device>>

\* ------------------------------------------------------------- the device
\* One serial transaction of thread t, as SendAttempt, together with what
\* it leaves on the device: ser.write(cmd_bytes) hands the register's new
\* value to the device in every attempt that opened the port.
SendWrite(t, outs) ==
  /\ pc[t] = "send"
  /\ \E out \in outs :
       /\ SendStep(t, out)
       /\ device' = IF out.fault = "open"
                      THEN device
                      ELSE [device EXCEPT ![CurrentStep(op[t]).addr] = CurrentStep(op[t]).val]
  /\ UNCHANGED <<ops, auto_state, settings_file,
                 history_buffer, log_buffer, serial, locks, workers, wire>>

\* The read returns the echo of the register written.
Echo(t) == {[fault |-> "none", resp |-> RegToken(CurrentStep(op[t]).addr)]}

\* The echo, nothing at all, or the port fails to open.
EchoSilenceOrFault(t) ==
  Echo(t) \cup {[fault |-> "none", resp |-> << >>], [fault |-> "open", resp |-> << >>]}

\* ------------------------------------------------------- settings handlers
\* int(max(1, min(4, int(max_level))))
ClampLevel(v) == Max(1, Min(4, v))

\* POST /api/night-mode up to save_settings(): the settings_lock section
\* and the state_lock section. `enabled` is "on", "off" or "keep" (absent
\* from the payload), max_level a number or None (absent).
ApiToggleNightMode(enabled, max_level) ==
  /\ pc["api"] = "idle"
  /\ BeginOp
  /\ locks["settings_lock"] = Free
  /\ locks["state_lock"] = Free
  /\ settings' = [settings EXCEPT
        !.night_quiet.enabled = IF enabled = "keep" THEN @ ELSE enabled = "on",
        !.night_quiet.max_level = IF max_level = None THEN @ ELSE ClampLevel(max_level)]
  /\ state' = [state EXCEPT !.night_quiet_enabled = settings'.night_quiet.enabled]
  /\ pc' = [pc EXCEPT !["api"] = "save"]
  /\ op' = [op EXCEPT !["api"] = [NoOp EXCEPT !.kind = "api_toggle_night_mode"]]
  /\ logged' = << >>
  /\ result' = NoResult
  /\ UNCHANGED <<auto_state, now, settings_file, plant>>

\* POST /api/settings up to save_settings(): settings_lock is taken and the
\* payload applied; the call of save_settings() is made inside the
\* with-block, so the lock is still held. target is the payload's humidity
\* target for the first sensor, override its override_minutes (None:
\* absent), aggressive its aggressiveness ("": absent), night the enabled
\* key of its night_quiet section ("on", "off", or "keep": absent).
ApiSettings(target, override, aggressive, night) ==
  /\ pc["api"] = "idle"
  /\ BeginOp
  /\ locks["settings_lock"] = Free
  /\ locks' = [locks EXCEPT !["settings_lock"] = "api"]
  /\ settings' = [settings EXCEPT
        !.humidity_targets[SensorOrder[1]] =
           IF target = None THEN @ ELSE Max(30000, Min(80000, target)),
        !.auto_mode.override_minutes = IF override = None THEN @ ELSE Max(1, override),
        !.auto_mode.aggressiveness = IF aggressive = "" THEN @ ELSE aggressive,
        !.night_quiet.enabled = IF night = "keep" THEN @ ELSE night = "on"]
  /\ pc' = [pc EXCEPT !["api"] = "save"]
  /\ op' = [op EXCEPT !["api"] = [NoOp EXCEPT !.kind = "api_settings"]]
  /\ logged' = << >>
  /\ result' = NoResult
  /\ UNCHANGED <<state, auto_state, now, settings_file,
                 history_buffer, log_buffer, serial, workers, wire, device>>

\* save_settings() as a handler calls it, and the rest of the handler:
\* `with settings_lock:` waits until the lock is free, the file is written,
\* the lock released (and the one api_settings held with it), the handler
\* logs and returns.
ApiSave ==
  /\ pc["api"] = "save"
  /\ locks["settings_lock"] = Free
  /\ settings_file' = Written(settings)
  /\ logged' =
       IF op["api"].kind = "api_settings"
         THEN <<Entry("settings", "Settings updated", "", None, "", None)>>
         ELSE <<Entry("mode", IF settings.night_quiet.enabled
                                THEN "Night quiet hours enabled"
                                ELSE "Night quiet hours disabled", "", None, "", None)>>
  /\ result' = Returned("api", op["api"].kind, "200")
  /\ pc' = [pc EXCEPT !["api"] = "idle"]
  /\ op' = [op EXCEPT !["api"] = NoOp]
  /\ UNCHANGED <<state, settings, auto_state, now, ops, plant>>

\* ---------------------------------------------------------------------- time
Tick ==
  /\ now < StartClock + MaxTick
  /\ now' = now + 1
  /\ logged' = << >>
  /\ result' = NoResult
  /\ UNCHANGED <<state, settings, auto_state, pc, op, ops, settings_file, plant>>

\* ------------------------------------------------------------ specifications
\* Both threads, every handler; each serial transaction is answered by the
\* echo of the register written or fails.
Next ==
  \/ \E level \in 0..5 : ApiSetLevel(level)
  \/ ApiTurnOff
  \/ ApiToggleBoost
  \/ ApiSchedule
  \/ \E enabled \in BOOLEAN : ApiToggleAuto(enabled)
  \/ AutoRead
  \/ \E h \in HumiditySamples : AutoDecide(h)
  \/ AutoApplied
  \/ \E t \in Threads : SendAttempt(t, CleanOutcomes(t))
  \/ \E t \in Threads : Commit(t)
  \/ Tick

Spec == Init /\ [][Next]_vars

\* The manual handlers alone, with every outcome of every serial transaction.
NextSend ==
  \/ \E level \in 0..5 : ApiSetLevel(level)
  \/ ApiTurnOff
  \/ ApiToggleBoost
  \/ ApiSchedule
  \/ SendAttempt("api", Outcomes)
  \/ Commit("api")
  \/ Tick

SpecSend == Init /\ [][NextSend]_vars

\* The night-quiet guard alone: the settings and the wall clock are drawn
\* at start, and manual set-level requests evaluate the guard.
QuietTimes == {<<0, 0>>, <<8, 0>>, <<8, 30>>, <<21, 0>>}

\* Wall-clock minutes around every boundary a window may have.
ClockSamples ==
  {(ParseTime(v) + MinutesPerDay + d) % MinutesPerDay : v \in QuietTimes, d \in {-1, 0, 1}}

InitQuiet ==
  /\ \E start \in QuietTimes, end \in QuietTimes, enabled \in BOOLEAN :
       settings = [DefaultSettings EXCEPT !.night_quiet.start = start,
                                          !.night_quiet.end = end,
                                          !.night_quiet.enabled = enabled]
  /\ state = InitialState(settings)
  /\ auto_state = InitialAutoState
  /\ now \in ClockSamples
  /\ InitThreads

NextQuiet ==
  \/ \E level \in Levels : ApiSetLevel(level)
  \/ SendAttempt("api", CleanOutcomes("api"))
  \/ Commit("api")
  \/ ApiSchedule

SpecQuiet == InitQuiet /\ [][NextQuiet]_vars

\* The night-quiet cap alone: the default window, with the maximum level,
\* the enabled flag and the wall clock drawn at start.
CapClocks ==
  {ParseTime(v) : v \in {<<23, 0>>, <<12, 0>>, <<7, 59>>, <<8, 0>>, <<20, 59>>, <<21, 0>>}}

InitCap ==
  /\ \E max_level \in Levels, enabled \in BOOLEAN :
       settings = [DefaultSettings EXCEPT !.night_quiet.max_level = max_level,
                                          !.night_quiet.enabled = enabled]
  /\ state = InitialState(settings)
  /\ auto_state = InitialAutoState
  /\ now \in CapClocks
  /\ InitThreads

SpecCap == InitCap /\ [][NextQuiet]_vars

\* The manual-override timer: automatic mode is on from the start (as
\* loaded from the settings file), override_minutes is drawn at start, and
\* manual boost toggles interleave with the controller's ticks.
OverrideMinutes == {0, 1, 2}

\* The snapshots its ticks see: no data (level 2), or one humid sensor (level 4).
OverrideSamples == {NoHumidity, Humidity(62000, None)}

InitOverride ==
  /\ \E m \in OverrideMinutes :
       settings = [DefaultSettings EXCEPT !.auto_mode.enabled = TRUE,
                                          !.auto_mode.override_minutes = m]
  /\ state = InitialState(settings)
  /\ auto_state = InitialAutoState
  /\ now = StartClock
  /\ InitThreads

NextOverride ==
  \/ ApiToggleBoost
  \/ ApiSchedule
  \/ AutoRead
  \/ \E h \in OverrideSamples : AutoDecide(h)
  \/ AutoApplied
  \/ \E t \in Threads : SendAttempt(t, CleanOutcomes(t))
  \/ \E t \in Threads : Commit(t)
  \/ Tick

SpecOverride == InitOverride /\ [][NextOverride]_vars

\* The manual handlers alone, with override_minutes drawn at start and every
\* outcome of every serial transaction.
InitManual ==
  /\ \E m \in OverrideMinutes :
       settings = [DefaultSettings EXCEPT !.auto_mode.override_minutes = m]
  /\ state = InitialState(settings)
  /\ auto_state = InitialAutoState
  /\ now = StartClock
  /\ InitThreads

SpecManual == InitManual /\ [][NextSend]_vars

\* The adaptive decision: automatic mode on and night quiet off from the
\* start, the aggressiveness drawn at start, and the controller alone.
\* Learning is configured off (adapt_rate 0, sample_window 1), so every
\* delta is value - target and the buffers hold the latest delta only.
Aggressiveness == {"calm", "balanced", "aggressive"}

\* Snapshots whose deltas (value - 55.0) sit on and around every threshold.
DecisionSamples ==
  {NoHumidity, Humidity(None, None)} \cup
  {Humidity(IF v[1] = None THEN None ELSE DefaultTarget + v[1],
            IF v[2] = None THEN None ELSE DefaultTarget + v[2]) :
     v \in {<<7000, None>>, <<8000, 0>>, <<6000, -6000>>, <<5000, None>>,
            <<3000, -3000>>, <<4000, -4000>>, <<2500, 500>>, <<2000, 2000>>,
            <<2900, -1000>>, <<1000, 1999>>, <<None, -2000>>, <<-1500, -1500>>,
            <<-3000, -3000>>, <<-1000, -1999>>, <<0, 0>>}}

InitDecision ==
  /\ \E a \in Aggressiveness :
       settings = [DefaultSettings EXCEPT !.auto_mode.enabled = TRUE,
                                          !.auto_mode.aggressiveness = a,
                                          !.night_quiet.enabled = FALSE,
                                          !.learning.adapt_rate = 0,
                                          !.learning.sample_window = 1]
  /\ state = InitialState(settings)
  /\ auto_state = InitialAutoState
  /\ now = StartClock
  /\ InitThreads

NextDecision ==
  \/ AutoRead
  \/ \E h \in DecisionSamples : AutoDecide(h)
  \/ AutoApplied
  \/ SendAttempt("auto", CleanOutcomes("auto"))
  \/ Commit("auto")

SpecDecision == InitDecision /\ [][NextDecision]_vars

\* The learning offsets: small sample windows, a small and the default
\* max_offset, two adaptation rates, and the controller alone.
MaxWindow == 2

LearnSamples ==
  {NoHumidity, Humidity(57000, None), Humidity(None, 57000),
   Humidity(57000, 57000), Humidity(53000, 57000)}

InitLearn ==
  /\ \E w \in 1..MaxWindow, max_offset \in {150, 8000}, adapt_rate \in {80, 100} :
       settings = [DefaultSettings EXCEPT !.auto_mode.enabled = TRUE,
                                          !.night_quiet.enabled = FALSE,
                                          !.learning.sample_window = w,
                                          !.learning.max_offset = max_offset,
                                          !.learning.adapt_rate = adapt_rate]
  /\ state = InitialState(settings)
  /\ auto_state = InitialAutoState
  /\ now = StartClock
  /\ InitThreads

NextLearn ==
  \/ AutoRead
  \/ \E h \in LearnSamples : AutoDecide(h)
  \/ AutoApplied
  \/ SendAttempt("auto", CleanOutcomes("auto"))
  \/ Commit("auto")

SpecLearn == InitLearn /\ [][NextLearn]_vars

\* The telemetry worker and the two rings: the rings start empty or one
\* short of full (as after that many iterations of the worker), the sample
\* window is 1, and the worker runs beside the controller.
MonitorSamples ==
  {NoHumidity, Humidity(None, None), Humidity(57000, None), Humidity(53000, 55000)}

\* The ring after n iterations whose max_delta went None, -1.0, +2.0, ...
FilledHistory(n) ==
  [i \in 1..n |-> Sample(i, None, CASE i % 3 = 0 -> None
                                     [] i % 3 = 1 -> -1000
                                     [] OTHER -> 2000)]

\* The ring after n entries were logged, the i-th carrying value i.
FilledLog(n) ==
  [i \in 1..n |-> Entry("system", "entry", "", None, "", n + 1 - i)]

InitRing ==
  /\ settings = [DefaultSettings EXCEPT !.auto_mode.enabled = TRUE,
                                        !.night_quiet.enabled = FALSE,
                                        !.learning.sample_window = 1]
  /\ \E full \in BOOLEAN :
       /\ history_buffer = IF full THEN FilledHistory(HistoryMaxlen - 1) ELSE << >>
       /\ log_buffer = IF full THEN FilledLog(LogMaxlen - 1) ELSE << >>
  /\ state = [InitialState(settings) EXCEPT
                !.metrics.max_delta =
                   IF history_buffer = << >> THEN None
                   ELSE history_buffer[Len(history_buffer)].max_delta,
                !.metrics.time_in_range_pct = TimeInRangePct(history_buffer)]
  /\ auto_state = InitialAutoState
  /\ now = StartClock
  /\ logged = << >>
  /\ pc = [t \in Threads |-> "idle"]
  /\ op = [t \in Threads |-> NoOp]
  /\ result = NoResult
  /\ ops = 0
  /\ settings_file = Written(settings)
  /\ serial = {}
  /\ locks = [l \in LockNames |-> Free]
  /\ workers = InitialWorkers
  /\ wire = NoWire
  /\ device = NoDevice

NextRing ==
  \/ \E h \in MonitorSamples : \E failed \in SUBSET Sensors : MonitorFetch(h, failed)
  \/ MonitorRecord
  \/ MonitorSleep
  \/ AutoRead
  \/ AutoDecide(Humidity(57000, 53000))
  \/ AutoApplied
  \/ SendAttempt("auto", CleanOutcomes("auto"))
  \/ Commit("auto")

SpecRing == InitRing /\ [][NextRing]_vars

\* The settings merge: the file is drawn at start (absent, or an object in
\* which each of three sections and one unknown key is absent, an object or
\* not an object), and the module loads it, saves it and loads it again.
\* Here `settings` holds the loaded object as JSON values.
AbsentKey == [tag |-> "absent", items |-> << >>, val |-> None]

StoredLearning ==
  {AbsentKey, Dict(<< >>), Dict([adapt_rate |-> Scalar(50)]),
   Dict([adapt_rate |-> Scalar(50), max_offset |-> Scalar(5000),
         sample_window |-> Scalar(6), legacy |-> Scalar(1)]),
   Scalar(None)}
StoredNightQuiet == {AbsentKey, Dict([max_level |-> Scalar(3)]), Scalar(0)}
StoredTargets == {AbsentKey, Dict([s1 |-> Scalar(60000)]), Scalar(None)}
StoredTheme == {AbsentKey, Scalar(1), Dict([accent |-> Scalar(2)])}

StoredObject(l, n, t, x) ==
  LET v == [learning |-> l, night_quiet |-> n, humidity_targets |-> t, theme |-> x]
  IN [k \in {j \in DOMAIN v : v[j].tag # "absent"} |-> v[k]]

StoredSamples ==
  {NoFile} \cup
  {Written(StoredObject(l, n, t, x)) :
     l \in StoredLearning, n \in StoredNightQuiet, t \in StoredTargets, x \in StoredTheme}

InitMerge ==
  /\ settings_file \in StoredSamples
  /\ settings = << >>
  /\ state = InitialState(DefaultSettings)
  /\ auto_state = InitialAutoState
  /\ now = StartClock
  /\ logged = << >>
  /\ pc = [t \in Threads |-> "idle"]
  /\ op = [t \in Threads |-> NoOp]
  /\ result = NoResult
  /\ ops = 0
  /\ InitPlant

NextMerge ==
  \/ Startup
  \/ SaveSettings

SpecMerge == InitMerge /\ [][NextMerge]_vars

\* The frame encoding alone: send_command is called with a three-digit
\* address and a non-negative value drawn at start.
AddrSamples ==
  {<<"1", "5", "1">>, <<"1", "5", "2">>, <<"1", "5", "4">>, <<"3", "2", "6">>,
   <<"0", "4", "5">>, <<"0", "0", "0">>, <<"9", "9", "9">>}

ValSamples ==
  {0, 1, 7, 10, 99, 100, 999, 1000, 4095, 9999, 10000, 65535, 99999, 100000, 123456}

InitFrame ==
  /\ settings = DefaultSettings
  /\ state = InitialState(settings)
  /\ auto_state = InitialAutoState
  /\ now = StartClock
  /\ logged = << >>
  /\ pc = [t \in Threads |-> "idle"]
  /\ op = [t \in Threads |-> NoOp]
  /\ result = NoResult
  /\ ops = 0
  /\ settings_file = Written(settings)
  /\ history_buffer = << >>
  /\ log_buffer = << >>
  /\ serial = {}
  /\ locks = [l \in LockNames |-> Free]
  /\ workers = InitialWorkers
  /\ device = NoDevice
  /\ \E addr \in AddrSamples, val \in ValSamples :
       wire = [addr |-> addr, val |-> val, frame |-> << >>]

NextFrame == SendCommandEncode

SpecFrame == InitFrame /\ [][NextFrame]_vars

\* The serial port: automatic mode is on from the start, and the sensor
\* worker, the controller and manual boost and turn-off requests each open
\* and close the port around their transactions.
NextLink ==
  \/ ApiToggleBoost
  \/ ApiTurnOff
  \/ ApiSchedule
  \/ AutoRead
  \/ AutoDecide(NoHumidity)
  \/ AutoApplied
  \/ \E t \in Threads : SendOpen(t)
  \/ \E t \in Threads : SendClose(t)
  \/ \E t \in Threads : SendAttempt(t, {[fault |-> "open", resp |-> << >>]})
  \/ \E t \in Threads : Commit(t)
  \/ SensorsOpen
  \/ SensorsClose

InitLink ==
  /\ settings = [DefaultSettings EXCEPT !.auto_mode.enabled = TRUE]
  /\ state = InitialState(settings)
  /\ auto_state = InitialAutoState
  /\ now = StartClock
  /\ InitThreads

SpecLink == InitLink /\ [][NextLink]_vars

\* The settings handlers beside the telemetry worker, which reads its poll
\* interval under settings_lock at the end of every iteration. A handler's
\* save_settings() runs as soon as settings_lock is free (weak fairness).
NextSettings ==
  \/ \E enabled \in BOOLEAN : ApiToggleAuto(enabled)
  \/ \E enabled \in {"keep", "on", "off"}, max_level \in {None, 0, 3, 9} :
       ApiToggleNightMode(enabled, max_level)
  \/ \E target \in {None, 20000, 60000}, override \in {None, 0, 30},
        aggressive \in {"", "calm"}, night \in {"keep", "on", "off"} :
       ApiSettings(target, override, aggressive, night)
  \/ ApiSave
  \/ MonitorFetch(NoHumidity, {})
  \/ MonitorRecord
  \/ MonitorSleep

SpecSettings == Init /\ [][NextSettings]_vars /\ WF_vars(ApiSave) /\ WF_vars(MonitorSleep)

\* The level sequences against the device: the registers hold any
\* combination of values when a manual set-level request arrives.
InitDevice ==
  /\ settings = DefaultSettings
  /\ state = InitialState(settings)
  /\ auto_state = InitialAutoState
  /\ now = StartClock
  /\ logged = << >>
  /\ pc = [t \in Threads |-> "idle"]
  /\ op = [t \in Threads |-> NoOp]
  /\ result = NoResult
  /\ ops = 0
  /\ settings_file = Written(settings)
  /\ history_buffer = << >>
  /\ log_buffer = << >>
  /\ serial = {}
  /\ locks = [l \in LockNames |-> Free]
  /\ workers = InitialWorkers
  /\ wire = NoWire
  /\ device \in [LevelRegisters -> {0, 1}]

NextDevice ==
  \/ \E level \in Levels : ApiSetLevel(level)
  \/ SendWrite("api", EchoSilenceOrFault("api"))
  \/ Commit("api")
  \/ ApiSchedule

SpecDevice == InitDevice /\ [][NextDevice]_vars

\* The manual operations one at a time, each of them successful, the first
\* of them a turn-off: every serial transaction is answered by the echo,
\* and set-level and toggle-boost requests arrive once turn_off_all_levels
\* has written the four registers.
NextSync ==
  \/ ApiTurnOff
  \/ device # NoDevice /\ \E level \in Levels : ApiSetLevel(level)
  \/ device # NoDevice /\ ApiToggleBoost
  \/ SendWrite("api", Echo("api"))
  \/ Commit("api")
  \/ ApiSchedule

SpecSync == Init /\ [][NextSync]_vars

\* Manual set-level requests beside the controller's ticks, automatic mode
\* on from the start: every serial transaction is answered by the echo, so
\* every level sequence returns success.
NextRace ==
  \/ \E level \in Levels : ApiSetLevel(level)
  \/ ApiSchedule
  \/ AutoRead
  \/ \E h \in OverrideSamples : AutoDecide(h)
  \/ AutoApplied
  \/ \E t \in Threads : SendWrite(t, Echo(t))
  \/ \E t \in Threads : Commit(t)

SpecRace == InitLink /\ [][NextRace]_vars

\* The night-quiet cap against every operation that sets a level: automatic
\* mode is on, the maximum level and the enabled flag are drawn at start,
\* and the wall clock stands inside (23:00) or outside (12:00) the window.
GuardClocks == {ParseTime(v) : v \in {<<23, 0>>, <<12, 0>>}}

InitGuard ==
  /\ \E max_level \in Levels, enabled \in BOOLEAN :
       settings = [DefaultSettings EXCEPT !.auto_mode.enabled = TRUE,
                                          !.night_quiet.max_level = max_level,
                                          !.night_quiet.enabled = enabled]
  /\ state = InitialState(settings)
  /\ auto_state = InitialAutoState
  /\ now \in GuardClocks
  /\ InitThreads

NextGuard ==
  \/ \E level \in Levels : ApiSetLevel(level)
  \/ ApiToggleBoost
  \/ ApiSchedule
  \/ AutoRead
  \/ \E h \in OverrideSamples : AutoDecide(h)
  \/ AutoApplied
  \/ \E t \in Threads : SendAttempt(t, CleanOutcomes(t))
  \/ \E t \in Threads : Commit(t)

SpecGuard == InitGuard /\ [][NextGuard]_vars

\* The manual-override timer with manual_override_active() in its two
\* state_lock sections, so that a manual action's schedule may fall
\* between the read of the expiry and its clearing.
NextExpiry ==
  \/ ApiToggleBoost
  \/ ApiSchedule
  \/ AutoRead
  \/ ManualOverrideRead
  \/ \E h \in OverrideSamples : AutoDecideAfterRead(h)
  \/ AutoApplied
  \/ \E t \in Threads : SendAttempt(t, CleanOutcomes(t))
  \/ \E t \in Threads : Commit(t)
  \/ Tick

SpecExpiry == InitOverride /\ [][NextExpiry]_vars

\* Boost toggles in two request threads at once, the controller's thread
\* beside them with automatic mode off; every serial transaction is
\* answered by the echo.
InitToggle ==
  /\ settings = DefaultSettings
  /\ state = InitialState(settings)
  /\ auto_state = InitialAutoState
  /\ now = StartClock
  /\ logged = << >>
  /\ pc = [t \in Threads \cup Handlers |-> "idle"]
  /\ op = [t \in Threads \cup Handlers |-> NoOp]
  /\ result = NoResult
  /\ ops = 0
  /\ settings_file = Written(settings)
  /\ InitPlant

NextToggle ==
  \/ \E t \in Handlers : ApiToggleBoostBy(t)
  \/ \E t \in Handlers : SendWrite(t, Echo(t))
  \/ \E t \in Handlers : Commit(t)
  \/ \E t \in Handlers : ApiScheduleBy(t)

SpecToggle == InitToggle /\ [][NextToggle]_vars

\* ======================================================================
\* Properties
\* ======================================================================

\* Thread t carries out one serial transaction in this step.
Attempted(t) == pc[t] = "send" /\ op'[t] # op[t]

\* The send_command call thread t is in returns True in this step.
SendReturnedTrue(t) ==
  /\ Attempted(t)
  /\ \/ pc'[t] = "commit"
     \/ pc'[t] = "send" /\ op'[t].step = op[t].step + 1 /\ op'[t].retry = 0

\* The read returned nothing, or bytes whose register token is not addr's.
SilentOrMismatch(out, addr) ==
  /\ out.fault = "none"
  /\ \/ out.resp = << >>
     \/ Len(out.resp) >= 3 /\ SubSeq(out.resp, 1, 3) # RegToken(addr)

\* ---- C1 ----------------------------------------------------------------
\* C1: a send_command call writes its frame at most 3 times; it retries only
\* after an attempt whose response was empty or carried another register's
\* token; an attempt that reads the matching echo ends the call with success
\* (last_command recorded, no further attempt of that call).
C1_AtMostThree == \A t \in Threads : op[t].tx <= 3 /\ op[t].retry <= 2

C1_Step ==
  \A t \in Threads :
    /\ (Attempted(t) /\ pc'[t] = "send" /\ op'[t].retry = op[t].retry + 1)
         => SilentOrMismatch(op'[t].out, CurrentStep(op[t]).addr)
    /\ (Attempted(t) /\ pc'[t] # "idle"
          /\ op'[t].out = [fault |-> "none", resp |-> RegToken(CurrentStep(op[t]).addr)])
         => /\ SendReturnedTrue(t)
            /\ state'.last_command = Cmd(CurrentStep(op[t]))

C1_Theorem == []C1_AtMostThree /\ [][C1_Step]_vars

\* A call that wrote its frame three times and then read the matching echo.
C1_Witness ==
  /\ pc["api"] = "commit"
  /\ op["api"].tx = 3
  /\ op["api"].retry = 2
  /\ op["api"].out.resp = RegToken(CurrentStep(op["api"]).addr)

\* ---- C2 ----------------------------------------------------------------
\* C2: a send_command call whose three attempts all ended in a mismatched
\* echo or in no response returns failure and leaves last_command and
\* last_command_time as they were.
C2_Claim ==
  [][\A t \in Threads : \A out \in Outcomes :
       (/\ pc[t] = "send"
        /\ op[t].retry = 2
        /\ SilentOrMismatch(out, CurrentStep(op[t]).addr)
        /\ SendStep(t, out))
         => /\ result'.thread = t
            /\ result'.value = "False"
            /\ state'.last_command = state.last_command
            /\ state'.last_command_time = state.last_command_time]_vars

\* The four Device State fields a level transition owns.
LevelFields(st) ==
  <<st.current_level, st.boost_active, st.boost_inhibit, st.level_start_time>>

\* Operation fn of some thread returned value in the latest step.
JustReturned(fn, value) == result.fn = fn /\ result.value = value

\* ---- C3 ----------------------------------------------------------------
\* C3: right after apply_level_strategy(L) returned True, L is in 1..4,
\* current_level = L, boost_inhibit = (L in {1,2}), boost_active = (L = 4),
\* and the step that ran its state_lock section wrote these three and
\* level_start_time together.
C3_AfterSuccess ==
  JustReturned("apply_level_strategy", "True") =>
    LET L == op[result.thread].level
    IN /\ L \in {1, 2, 3, 4}
       /\ state.current_level = L
       /\ state.boost_inhibit = (L \in {1, 2})
       /\ state.boost_active = (L = 4)

C3_OneSection ==
  \A t \in Threads :
    (pc[t] = "commit" /\ op[t].kind = "level" /\ pc'[t] # "commit")
      => /\ result' = Returned(t, "apply_level_strategy", "True")
         /\ LevelFields(state') =
              <<op[t].level, op[t].level = 4, op[t].level \in {1, 2}, now>>

C3_Theorem == []C3_AfterSuccess /\ [][C3_OneSection]_vars

\* Level 3 applied over a level that had set boost inhibit.
C3_Witness ==
  /\ JustReturned("apply_level_strategy", "True")
  /\ op[result.thread].level = 3
  /\ state.current_level = 3
  /\ state.manual_override_until # None

\* ---- C4 ----------------------------------------------------------------
\* C4: in every reachable state boost_inhibit is true only when
\* current_level is 1 or 2.
C4_Claim == state.boost_inhibit => state.current_level \in {1, 2}

\* ---- C5 ----------------------------------------------------------------
\* C5: in every reachable state current_level is None or 1..4 and
\* boost_active is true only when current_level = 4; a set-level request
\* for a level outside 1..4 is answered with a failure, begins no send and
\* changes neither Device State nor the log.
C5_Inv ==
  /\ state.current_level \in {None, 1, 2, 3, 4}
  /\ state.boost_active => state.current_level = 4

C5_Reject ==
  \A level \in {0, 5} :
    ApiSetLevel(level)
      => /\ result' = Returned("api", "api_set_level", "400")
         /\ pc'["api"] = "idle"
         /\ op'["api"] = NoOp
         /\ logged' = << >>
         /\ UNCHANGED state

C5_Theorem == []C5_Inv /\ [][C5_Reject]_vars

\* A rejected request arriving while boost is active at level 4.
C5_Witness ==
  /\ JustReturned("api_set_level", "400")
  /\ state.boost_active
  /\ state.current_level = 4

\* ---- C6 ----------------------------------------------------------------
\* C6: when the send of step k of an apply_level or turn_off sequence
\* fails, the sequence ends there (its thread leaves the sequence, so no
\* later step is sent), the sends made are exactly steps 1..k, the newest
\* log entry is an error entry carrying the failed step's label, and the
\* operation returns False.
C6_Step ==
  \A t \in Threads :
    (/\ pc[t] = "send"
     /\ op[t].kind \in {"level", "off"}
     /\ result'.thread = t
     /\ result'.value = "False")
      => LET s == CurrentStep(op[t])
         IN /\ pc'[t] = "idle"
            /\ op'[t] = NoOp
            /\ result'.fn = OpFunction(op[t])
            /\ (IF op[t].retry = 0 THEN Append(op[t].cmds, Cmd(s)) ELSE op[t].cmds)
                 = [i \in 1..op[t].step |-> Cmd(Steps(op[t])[i])]
            /\ Len(logged') >= 1
            /\ logged'[1].kind = "error"
            /\ logged'[1].step = s.label
            /\ logged'[1].message =
                 (IF op[t].kind = "level" THEN "Level strategy step failed"
                                          ELSE "Turn off step failed")

\* A fault in a serial transaction always makes the operation return False.
C6_FaultFails ==
  \A t \in Threads : \A out \in Outcomes :
    (pc[t] = "send" /\ out.fault # "none" /\ SendStep(t, out))
      => result'.thread = t /\ result'.value = "False"

C6_Theorem == [][C6_Step /\ C6_FaultFails]_vars

\* turn_off failed at its third step.
C6_Witness ==
  /\ JustReturned("turn_off_all_levels", "False")
  /\ Len(logged) = 2
  /\ logged[1].message = "Turn off step failed"
  /\ logged[1].step = "Speed 4 OFF"
  /\ state.last_command = <<"152", 0>>

\* ---- C7 ----------------------------------------------------------------
\* C7: no step of an apply_level or turn_off sequence before its final
\* state_lock section, and in particular the step at which the operation
\* fails and returns False, changes current_level, boost_active,
\* boost_inhibit or level_start_time.
C7_Step ==
  \A t \in Threads :
    (Attempted(t) /\ op[t].kind \in {"level", "off"})
      => LevelFields(state') = LevelFields(state)

C7_Theorem == [][C7_Step]_vars

\* A level transition to 3 that failed after clearing boost inhibit on the
\* device, with level 1 still recorded.
C7_Witness ==
  /\ JustReturned("apply_level_strategy", "False")
  /\ state.current_level = 1
  /\ state.boost_inhibit
  /\ state.last_command = <<"326", 0>>

\* ---- C8 ----------------------------------------------------------------
\* C8: the send_command calls of a turn_off are, in order, a prefix of
\* 151=0, 152=0, 154=0, 326=0; a turn_off that returned True made exactly
\* those four, and left current_level = None, boost_active = FALSE,
\* boost_inhibit = FALSE, level_start_time = None.
C8_Commands == << <<"151", 0>>, <<"152", 0>>, <<"154", 0>>, <<"326", 0>> >>

C8_Inv ==
  /\ \A t \in Threads :
       op[t].kind = "off"
         => /\ Len(op[t].cmds) <= 4
            /\ op[t].cmds = SubSeq(C8_Commands, 1, Len(op[t].cmds))
            /\ pc[t] # "send" => op[t].cmds = C8_Commands
  /\ JustReturned("turn_off_all_levels", "True")
       => /\ op[result.thread].cmds = C8_Commands
          /\ LevelFields(state) = <<None, FALSE, FALSE, None>>

C8_Theorem == []C8_Inv

\* A successful turn-off that followed a successful boost at level 4.
C8_Witness ==
  /\ JustReturned("turn_off_all_levels", "True")
  /\ state.manual_override_until # None
  /\ state.last_command = <<"326", 0>>
  /\ ops = 2

\* ---- C9 ----------------------------------------------------------------
\* C9: a boost toggle makes one send_command call, to register 154 with
\* value 1 when turning boost on and 0 when turning it off; when the call
\* succeeded boost_active becomes the negation of what it was, and when it
\* failed boost_active and current_level stay as they were.
C9_Sends ==
  \A t \in Threads :
    op[t].kind = "boost"
      => LET one == << <<"154", IF op[t].new_state THEN 1 ELSE 0>> >>
         IN /\ op[t].cmds \in {<< >>, one}
            /\ pc[t] # "send" => op[t].cmds = one
            /\ op[t].new_state = ~state.boost_active \/ pc[t] = "sched"

C9_Step ==
  /\ (pc["api"] = "commit" /\ op["api"].kind = "boost" /\ pc'["api"] # "commit")
       => /\ state'.boost_active = ~state.boost_active
          /\ result' = Returned("api", "send_command", "True")
  /\ (pc["api"] = "send" /\ op["api"].kind = "boost" /\ Attempted("api"))
       => /\ state'.boost_active = state.boost_active
          /\ state'.current_level = state.current_level
  /\ (pc["api"] = "send" /\ op["api"].kind = "boost" /\ result'.value = "False")
       => /\ pc'["api"] = "idle"
          /\ Len(op["api"].cmds) <= 1

C9_Theorem == []C9_Sends /\ [][C9_Step]_vars

\* Boost turned off again by a second, successful toggle.
C9_Witness ==
  /\ JustReturned("send_command", "True")
  /\ op["api"].kind = "boost"
  /\ op["api"].cmds = << <<"154", 0>> >>
  /\ ~state.boost_active
  /\ state.current_level = 4

\* ---- C10 ---------------------------------------------------------------
\* C10: the quiet window is half-open: with start <= end the minute of day
\* t is inside iff start <= t < end, with start > end iff t >= start or
\* t < end, and never when night quiet is disabled; this is what
\* is_within_quiet_hours answers, and what a set-level request stores in
\* night_quiet_active.
C10_Window(start, end) ==
  IF start <= end
    THEN start .. (end - 1)
    ELSE (start .. (MinutesPerDay - 1)) \cup (0 .. (end - 1))

C10_Inside ==
  /\ state.night_quiet_enabled
  /\ TimeOfDay(now) \in C10_Window(ParseTime(settings.night_quiet.start),
                                   ParseTime(settings.night_quiet.end))

C10_Answer == IsWithinQuietHours(state, settings, now) <=> C10_Inside

C10_Stored ==
  (pc["api"] = "idle" /\ pc'["api"] = "send")
    => state'.night_quiet_active = C10_Inside

C10_Theorem == []C10_Answer /\ [][C10_Stored]_vars

\* An overnight window, evaluated in the minute before it ends.
C10_Witness ==
  /\ pc["api"] = "send"
  /\ state.night_quiet_active
  /\ ParseTime(settings.night_quiet.start) > ParseTime(settings.night_quiet.end)
  /\ TimeOfDay(now) = ParseTime(settings.night_quiet.end) - 1

\* ---- C11 ---------------------------------------------------------------
\* C11: for every requested level L in 1..4 and max_level M in 1..4 the
\* guard answers (min(L, M), L > M) when night quiet is enabled and the
\* time is inside the window, and (L, false) otherwise; the set-level
\* request that evaluates it carries on with that level, logs the cap
\* exactly when capped, and stores in night_quiet_active whether the time
\* was inside the window.
C11_Expected(L) ==
  LET M == settings.night_quiet.max_level
  IN IF C10_Inside
       THEN [level |-> IF L <= M THEN L ELSE M, capped |-> L > M, active |-> TRUE]
       ELSE [level |-> L, capped |-> FALSE, active |-> FALSE]

C11_Answer ==
  \A L \in Levels : EnforceNightQuiet(L, state, settings, now) = C11_Expected(L)

C11_Request ==
  \A L \in Levels :
    ApiSetLevel(L)
      => /\ op'["api"].level = C11_Expected(L).level
         /\ state'.night_quiet_active = C11_Expected(L).active
         /\ (logged' # << >>) = C11_Expected(L).capped
         /\ C11_Expected(L).capped
              => /\ logged'[1].message = "Requested level capped due to quiet hours"
                 /\ logged'[1].level = settings.night_quiet.max_level

C11_Theorem == []C11_Answer /\ [][C11_Request]_vars

\* A level above 2 requested at 23:00 with max_level 2: capped to 2.
C11_Witness ==
  /\ TimeOfDay(now) = ParseTime(<<23, 0>>)
  /\ settings.night_quiet.max_level = 2
  /\ pc["api"] = "send"
  /\ op["api"].level = 2
  /\ op["api"].cmds = << >>
  /\ logged # << >>
  /\ state.night_quiet_active

\* The controller's tick runs manual_override_active in this step.
IsActiveCall == pc["auto"] = "decide" /\ pc'["auto"] # "decide"

\* The schedule's length in minutes: override_minutes, at least 1.
OverrideLength ==
  IF settings.auto_mode.override_minutes >= 1
    THEN settings.auto_mode.override_minutes
    ELSE 1

\* The "override window expired" entries among the latest step's log entries.
ExpiryLogs(buf) ==
  SelectSeq(buf, LAMBDA e : e.message = "Manual override window expired; auto mode resumes")

\* ---- C12 ---------------------------------------------------------------
\* C12: once schedule stored an expiry at time t0 for m >= 1 minutes,
\* is_active answers (true, remaining) with remaining > 0 at every time t
\* with t0 <= t < t0 + 60 m; and a tick that calls is_active before the
\* expiry leaves the stored expiry as it is, records the override as its
\* reason and starts no device operation.
C12_Scheduled ==
  (pc["api"] = "sched" /\ pc'["api"] = "idle")
    => \A t \in now .. (now + OverrideLength - 1) :
         LET r == ManualOverrideActive(state', t)
         IN /\ r.active
            /\ r.remaining > 0
            /\ r.remaining = SecondsPerMinute * (now + OverrideLength - t)
            /\ ~r.expired

C12_Call ==
  (/\ IsActiveCall
   /\ state.manual_override_until # None
   /\ TimeSec(now) < state.manual_override_until)
    => /\ state'.manual_override_until = state.manual_override_until
       /\ state'.auto_status.reason = "override"
       /\ pc'["auto"] = "idle"
       /\ ExpiryLogs(logged') = << >>

C12_Theorem == [][C12_Scheduled /\ C12_Call]_vars

\* is_active called in the last minute of a two-minute window.
C12_Witness ==
  /\ state.auto_status.reason = "override"
  /\ settings.auto_mode.override_minutes = 2
  /\ state.manual_override_until = TimeSec(now) + SecondsPerMinute
  /\ pc["auto"] = "idle"

\* ---- C13 ---------------------------------------------------------------
\* C13: the first is_active call at or after the stored expiry answers
\* (false, None), clears the expiry and logs the expiry once; an is_active
\* call that finds no expiry stored answers (false, None), stores none and
\* logs no expiry. In both cases the tick goes on to its decision.
C13_Answer ==
  (state.manual_override_until = None \/ state.manual_override_until <= TimeSec(now))
    => /\ ~ManualOverrideActive(state, now).active
       /\ ManualOverrideActive(state, now).remaining = None

C13_First ==
  (/\ IsActiveCall
   /\ state.manual_override_until # None
   /\ state.manual_override_until <= TimeSec(now))
    => /\ state'.manual_override_until = None
       /\ Len(ExpiryLogs(logged')) = 1
       /\ state'.auto_status.reason # "override"

C13_Later ==
  (IsActiveCall /\ state.manual_override_until = None)
    => /\ state'.manual_override_until = None
       /\ ExpiryLogs(logged') = << >>
       /\ state'.auto_status.reason # "override"

C13_Theorem == []C13_Answer /\ [][C13_First /\ C13_Later]_vars

\* The tick that found the expiry passed: cleared, logged once.
C13_Witness ==
  /\ Len(ExpiryLogs(logged)) = 1
  /\ state.manual_override_until = None
  /\ state.auto_status.reason \in {"nodata", "delta"}
  /\ now = StartClock + 1

\* ---- C14 ---------------------------------------------------------------
\* C14 (as stated): whenever a manual set-level, turn-off or toggle-boost
\* action has just returned, with success or with failure,
\* manual_override_until is the time of the return plus override_minutes
\* (at least 1) minutes.
ManualActionReturned ==
  /\ result.thread = "api"
  /\ result.fn \in {"handler", "apply_level_strategy", "turn_off_all_levels", "send_command"}
  /\ result.value \in {"200", "False"}

C14_Claim ==
  ManualActionReturned
    => state.manual_override_until = TimeSec(now) + SecondsPerMinute * OverrideLength

\* C14 (amended): a manual set-level, turn-off or toggle-boost action that
\* succeeds re-schedules the override: when it returns,
\* manual_override_until is the time of the return plus override_minutes
\* (at least 1) minutes. An action that fails, or a request for an invalid
\* level, leaves manual_override_until as it was.
C14_Success ==
  (result.thread = "api" /\ result.fn = "handler" /\ result.value = "200")
    => state.manual_override_until = TimeSec(now) + SecondsPerMinute * OverrideLength

C14_Steps ==
  /\ (pc["api"] = "sched" /\ pc'["api"] # "sched")
       => /\ result' = Returned("api", "handler", "200")
          /\ state'.manual_override_until
               = TimeSec(now) + SecondsPerMinute * OverrideLength
  /\ (pc["api"] # "sched")
       => state'.manual_override_until = state.manual_override_until

C14_Theorem == []C14_Success /\ [][C14_Steps]_vars

\* A failed manual action after a successful one and a minute's wait: the
\* override is still the one the first action scheduled.
C14_Witness ==
  /\ result.thread = "api"
  /\ result.value = "False"
  /\ state.manual_override_until # None
  /\ state.manual_override_until < TimeSec(now) + SecondsPerMinute * OverrideLength

\* ---- C15 ---------------------------------------------------------------
\* C15: while a scheduled manual override has not expired, the adaptive
\* controller carries out no serial transaction and does not change
\* current_level, boost_active or boost_inhibit.
OverrideInForce ==
  /\ state.manual_override_until # None
  /\ state.manual_override_until > TimeSec(now)

C15_Claim ==
  [][OverrideInForce
       => /\ ~Attempted("auto")
          /\ pc["auto"] = "commit" => pc'["auto"] = "commit"]_vars

\* The sensors that carry a value in snapshot h, and the delta of each:
\* value - (target + learned offset), on the offsets before the tick.
Valued(h) == IF h.empty THEN {} ELSE {e \in Sensors : h.value[e] # None}

DeltaOf(h, e) ==
  h.value[e] - settings.humidity_targets[e] - state.learning.offsets[e]

MaxDeltaOf(h) ==
  CHOOSE d \in {DeltaOf(h, e) : e \in Valued(h)} :
    \A e \in Valued(h) : DeltaOf(h, e) <= d

RECURSIVE SumDeltaOver(_, _)
SumDeltaOver(h, S) ==
  IF S = {} THEN 0
  ELSE LET e == CHOOSE x \in S : TRUE
       IN DeltaOf(h, e) + SumDeltaOver(h, S \ {e})

\* ---- C16 ---------------------------------------------------------------
\* C16: the level decided from (max_delta, avg_delta, aggressiveness), with
\* high/medium thresholds 6/3 (8/4 for calm) and low threshold -1.5 (-3 for
\* aggressive), is 4 when max_delta >= high; else 3 when max_delta >= medium
\* or avg_delta >= medium/2; else 1 when avg_delta <= low; else 2. A tick
\* records that level for the deltas of its snapshot. For balanced:
\* max_delta 7 gives 4, 5 gives 3, avg_delta -2 gives 1, otherwise 2.
\* (avg_delta is sum / n; thresholds are in thousandths.)
C16_High(a) == IF a = "calm" THEN 8000 ELSE 6000
C16_Medium(a) == IF a = "calm" THEN 4000 ELSE 3000
C16_TwiceLow(a) == IF a = "aggressive" THEN -6000 ELSE -3000

C16_Level(mx, sum, n, a) ==
  CASE mx >= C16_High(a) -> 4
    [] mx < C16_High(a) /\ (mx >= C16_Medium(a) \/ 2 * sum >= C16_Medium(a) * n) -> 3
    [] mx < C16_Medium(a) /\ 2 * sum < C16_Medium(a) * n /\ 2 * sum <= C16_TwiceLow(a) * n -> 1
    [] OTHER -> 2

C16_Literal ==
  /\ DetermineLevel(7000, 7000, 1, "balanced") = 4
  /\ DetermineLevel(5000, 5000, 1, "balanced") = 3
  /\ DetermineLevel(-2000, -2000, 1, "balanced") = 1
  /\ DetermineLevel(2900, 1900, 2, "balanced") = 2
  /\ DetermineLevel(0, 0, 2, settings.auto_mode.aggressiveness) = 2

C16_Tick ==
  \A h \in DecisionSamples :
    (AutoDecide(h) /\ Valued(h) # {})
      => /\ state'.auto_status.recommended_level
              = C16_Level(MaxDeltaOf(h), SumDeltaOver(h, Valued(h)),
                          Cardinality(Valued(h)), settings.auto_mode.aggressiveness)
         /\ state'.auto_status.reason = "delta"

C16_Theorem == []C16_Literal /\ [][C16_Tick]_vars

\* Calm policy, deltas 2.0 and 2.0: level 3 by the average alone.
C16_Witness ==
  /\ settings.auto_mode.aggressiveness = "calm"
  /\ state.auto_status.recommended_level = 3
  /\ auto_state.diff_buffers = [e \in Sensors |-> <<2000>>]

\* ---- C17 ---------------------------------------------------------------
\* C17: a tick whose snapshot is empty, or has no sensor with a value,
\* records level 2 with a no-data reason and leaves every learning buffer
\* and offset as it was; a tick whose snapshot lacks the value of some
\* sensor records the level decided from the other sensors' deltas alone,
\* and leaves the buffer and offset of the sensor without value as they were.
C17_NoData ==
  \A h \in DecisionSamples :
    (AutoDecide(h) /\ Valued(h) = {})
      => /\ state'.auto_status.recommended_level = 2
         /\ state'.auto_status.reason = (IF h.empty THEN "nodata" ELSE "novalid")
         /\ auto_state' = auto_state
         /\ state'.learning = state.learning
         /\ state'.auto_status.last_learning_update
              = state.auto_status.last_learning_update

C17_Missing ==
  \A h \in DecisionSamples :
    \A e \in Sensors :
      (AutoDecide(h) /\ Valued(h) = {e})
        => /\ state'.auto_status.recommended_level
                = C16_Level(DeltaOf(h, e), DeltaOf(h, e), 1,
                            settings.auto_mode.aggressiveness)
           /\ \A x \in Sensors \ {e} :
                /\ auto_state'.diff_buffers[x] = auto_state.diff_buffers[x]
                /\ state'.learning.offsets[x] = state.learning.offsets[x]

C17_Theorem == [][C17_NoData /\ C17_Missing]_vars

\* A tick that saw only the second sensor (delta -2.0) after one that saw
\* both: the first sensor's buffer still holds its earlier delta.
C17_Witness ==
  /\ auto_state.diff_buffers["s2"] = <<-2000>>
  /\ auto_state.diff_buffers["s1"] = <<2000>>
  /\ state.auto_status.reason = "delta"
  /\ state.auto_status.recommended_level = 1

\* ---- C18 ---------------------------------------------------------------
\* C18: while a sensor's buffer holds fewer than sample_window deltas its
\* offset is the initial 0; and a tick changes neither the buffer nor the
\* offset of a sensor it has no value for, whatever it does for the others.
C18_NotFull ==
  \A e \in Sensors :
    Len(auto_state.diff_buffers[e]) < settings.learning.sample_window
      => state.learning.offsets[e] = 0

C18_Others ==
  \A h \in LearnSamples :
    AutoDecide(h)
      => \A e \in Sensors \ Valued(h) :
           /\ auto_state'.diff_buffers[e] = auto_state.diff_buffers[e]
           /\ state'.learning.offsets[e] = state.learning.offsets[e]

C18_Theorem == []C18_NotFull /\ [][C18_Others]_vars

\* Window 2: the second sensor's offset moved, the first sensor's buffer
\* holds one delta and its offset is still 0.
C18_Witness ==
  /\ settings.learning.sample_window = 2
  /\ Len(auto_state.diff_buffers["s1"]) = 1
  /\ state.learning.offsets["s1"] = 0
  /\ state.learning.offsets["s2"] # 0

\* ---- C19 ---------------------------------------------------------------
\* C19: in every reachable state every sensor's learning offset lies
\* between -max_offset and max_offset.
C19_Inv ==
  \A e \in Sensors :
    /\ state.learning.offsets[e] <= settings.learning.max_offset
    /\ state.learning.offsets[e] >= -settings.learning.max_offset

C19_Theorem == []C19_Inv

\* An offset held at max_offset = 0.15 by the clamp.
C19_Witness ==
  /\ settings.learning.max_offset = 150
  /\ state.learning.offsets["s1"] = 150
  /\ auto_state.diff_buffers["s1"] = <<2000, 2000>>

\* ---- C20 ---------------------------------------------------------------
\* C20: the tick that feeds the last of sample_window identical deltas d to
\* a sensor whose buffer was being filled from empty moves its offset from
\* 0 to adapt_rate * d, clamped to +/- max_offset (the ticks before it left
\* the offset at 0); and an offset that equals max_offset stays there when
\* the deltas in its buffer are all positive.
C20_Clamp(x) ==
  IF x > settings.learning.max_offset THEN settings.learning.max_offset
  ELSE IF x < -settings.learning.max_offset THEN -settings.learning.max_offset
  ELSE x

C20_Filling(h, e) ==
  /\ e \in Valued(h)
  /\ Len(auto_state.diff_buffers[e]) = settings.learning.sample_window - 1
  /\ \A i \in 1..Len(auto_state.diff_buffers[e]) :
       auto_state.diff_buffers[e][i] = DeltaOf(h, e)

C20_Fill ==
  \A h \in LearnSamples :
    \A e \in Sensors :
      (AutoDecide(h) /\ C20_Filling(h, e))
        => /\ state.learning.offsets[e] = 0
           /\ (settings.learning.adapt_rate * DeltaOf(h, e)) % Milli = 0
           /\ state'.learning.offsets[e]
                = C20_Clamp((settings.learning.adapt_rate * DeltaOf(h, e)) \div Milli)
           /\ Len(auto_state'.diff_buffers[e]) = settings.learning.sample_window

C20_Saturated ==
  \A h \in LearnSamples :
    \A e \in Sensors :
      (/\ AutoDecide(h)
       /\ e \in Valued(h)
       /\ state.learning.offsets[e] = settings.learning.max_offset
       /\ \A i \in 1..Len(auto_state'.diff_buffers[e]) :
            auto_state'.diff_buffers[e][i] > 0)
        => state'.learning.offsets[e] = settings.learning.max_offset

C21_Bounded ==
  /\ Len(history_buffer) <= 1440
  /\ Len(log_buffer) <= 500
  /\ \A e \in Sensors :
       Len(auto_state.diff_buffers[e]) <= settings.learning.sample_window

\* new is old with k elements appended at its end under bound cap.
C21_AppendedRight(old, new, k, cap) ==
  /\ Len(new) = Min(Len(old) + k, cap)
  /\ Len(new) >= k
  /\ LET kept == Len(new) - k
     IN SubSeq(new, 1, kept) = SubSeq(old, Len(old) - kept + 1, Len(old))

\* new is old with k elements pushed at its front under bound cap.
C21_AppendedLeft(old, new, k, cap) ==
  /\ Len(new) = Min(Len(old) + k, cap)
  /\ Len(new) >= k
  /\ SubSeq(new, k + 1, Len(new)) = SubSeq(old, 1, Len(new) - k)

C21_Evicts ==
  /\ history_buffer' # history_buffer
       => /\ C21_AppendedRight(history_buffer, history_buffer', 1, 1440)
          /\ history_buffer'[Len(history_buffer')].ts \notin
               {history_buffer[i].ts : i \in 1..Len(history_buffer)}
  /\ log_buffer' # log_buffer
       => \E k \in 1..Len(SensorOrder) :
            /\ C21_AppendedLeft(log_buffer, log_buffer', k, 500)
            /\ \A i \in 1..k : log_buffer'[i].message = "HA provider failed"
  /\ \A e \in Sensors :
       auto_state'.diff_buffers[e] # auto_state.diff_buffers[e]
         => C21_AppendedRight(auto_state.diff_buffers[e], auto_state'.diff_buffers[e],
                              1, settings.learning.sample_window)

C21_Theorem == []C21_Bounded /\ [][C21_Evicts]_vars

\* Both rings full after an eviction (the history ring lost sample 1, the
\* log ring entry 1), and a delta buffer at its bound of one.
C21_Witness ==
  /\ Len(history_buffer) = 1440
  /\ history_buffer[1].ts = 2
  /\ Len(log_buffer) = 500
  /\ log_buffer[500].value = 2
  /\ settings.learning.sample_window = 1
  /\ Len(auto_state.diff_buffers["s1"]) = 1

\* ---- C22 ---------------------------------------------------------------
\* C22 as stated: after every history append, time_in_range_pct is exactly
\* 100 * within / valid over the retained samples (None when valid = 0).
\* (time_in_range_pct is in tenths of a percent.)
C22_Exact(buf, pct) ==
  IF ValidEntries(buf) = {} THEN pct = None
  ELSE pct * Cardinality(ValidEntries(buf)) = 1000 * Cardinality(Within(buf))

C22_Claim ==
  [][history_buffer' # history_buffer
       => C22_Exact(history_buffer', state'.metrics.time_in_range_pct)]_vars

\* C22, amended: after every history append, time_in_range_pct is
\* 100 * within / valid over the retained samples rounded to one decimal
\* place (60.0 for 6 of 10), and None when no retained sample has a
\* max_delta.
C22_Rounded(buf, pct) ==
  IF ValidEntries(buf) = {} THEN pct = None
  ELSE LET n == Cardinality(ValidEntries(buf))
           w == Cardinality(Within(buf))
           err == pct * n - 1000 * w
       IN /\ 2 * err <= n
          /\ -2 * err <= n
          /\ (2 * err = n \/ -2 * err = n) => pct % 2 = 0

C22_TenSamples == [i \in 1..10 |-> Sample(i, 2, IF i <= 6 THEN -500 ELSE 1500)]

C22_Append ==
  history_buffer' # history_buffer
    => C22_Rounded(history_buffer', state'.metrics.time_in_range_pct)

C22_Theorem == [](TimeInRangePct(C22_TenSamples) = 600) /\ [][C22_Append]_vars

\* A full ring whose first sample (in range) was evicted: the percentage is
\* that of the 1440 retained samples.
C22_Witness ==
  /\ Len(history_buffer) = 1440
  /\ history_buffer[1].ts = 2
  /\ state.metrics.time_in_range_pct
       = RoundDiv(1000 * Cardinality(Within(history_buffer)),
                  Cardinality(ValidEntries(history_buffer)))
  /\ state.metrics.time_in_range_pct * Cardinality(ValidEntries(history_buffer))
       # 1000 * Cardinality(Within(history_buffer))

\* ---- C23 ---------------------------------------------------------------
\* C23: whenever the module has just loaded a stored settings object, the
\* settings contain every default top-level key as a section with every
\* default nested key; a stored value is the value of its key; top-level
\* keys unknown to the defaults are there unchanged; and loading what was
\* saved from merged settings gives those settings again.
C23_JustLoaded == result.fn = "load_settings" /\ settings_file.exists

C23_Complete ==
  \A k \in DOMAIN JsonDefaults :
    /\ k \in DOMAIN settings
    /\ settings[k].tag = "dict"
    /\ DOMAIN JsonDefaults[k].items \subseteq DOMAIN settings[k].items

C23_Overrides ==
  \A k \in DOMAIN settings_file.data :
    /\ k \in DOMAIN settings
    /\ IF k \in DOMAIN JsonDefaults /\ settings_file.data[k].tag = "dict"
         THEN \A j \in DOMAIN settings_file.data[k].items :
                /\ settings[k].tag = "dict"
                /\ j \in DOMAIN settings[k].items
                /\ settings[k].items[j] = settings_file.data[k].items[j]
         ELSE k \notin DOMAIN JsonDefaults => settings[k] = settings_file.data[k]

C23_Idempotent ==
  settings_file = Written(settings) => LoadSettings(settings_file) = settings

C23_Claim ==
  C23_JustLoaded => (C23_Complete /\ C23_Overrides /\ C23_Idempotent)

\* ---- C24 ---------------------------------------------------------------
\* C24 as stated: every frame encoded from a three-digit address and a
\* non-negative value has exactly 11 characters.
C24_Claim == wire.frame # << >> => Len(wire.frame) = 11

\* C24, amended: every frame encoded from a three-digit address and a value
\* from 0 to 99999 has exactly 12 characters: the address, "0+", five
\* digits that read as the value, CR and LF.
C24_DigitOf(c) == CHOOSE d \in 0..9 : DigitChars[d + 1] = c

C24_Value(frame) ==
  10000 * C24_DigitOf(frame[6]) + 1000 * C24_DigitOf(frame[7])
    + 100 * C24_DigitOf(frame[8]) + 10 * C24_DigitOf(frame[9]) + C24_DigitOf(frame[10])

C24_Theorem ==
  (wire.frame # << >> /\ wire.val <= 99999)
    => /\ Len(wire.frame) = 12
       /\ SubSeq(wire.frame, 1, 3) = wire.addr
       /\ SubSeq(wire.frame, 4, 5) = <<"0", "+">>
       /\ \A i \in 6..10 : \E d \in 0..9 : DigitChars[d + 1] = wire.frame[i]
       /\ C24_Value(wire.frame) = wire.val
       /\ SubSeq(wire.frame, 11, 12) = <<"\r", "\n">>

\* send_command("154", 1): the frame 1540+00001 CR LF.
C24_Witness ==
  /\ wire.addr = <<"1", "5", "4">>
  /\ wire.val = 1
  /\ wire.frame = <<"1", "5", "4", "0", "+", "0", "0", "0", "0", "1", "\r", "\n">>

\* ---- C25 ---------------------------------------------------------------
\* C25: at most one thread has the serial port open at any time.
C25_Claim == Cardinality(serial) <= 1

\* ---- C26 ---------------------------------------------------------------
\* C26: whenever the latest send_command call of an operation has written a
\* frame to a fan-speed register (151, 152, 154) or to the boost-inhibit
\* register (326), that transaction ran the quiet-period gating first.
C26_Claim ==
  \A t \in Threads :
    (op[t].cmds # << >> /\ op[t].tx > 0
       /\ op[t].cmds[Len(op[t].cmds)][1] \in {"151", "152", "154", "326"})
      => op[t].quiet

\* ---- C27 ---------------------------------------------------------------
\* C27: a settings handler that has reached its save_settings() call goes on
\* to return, and a telemetry iteration that has reached its read of the
\* poll interval goes on to finish.
C27_Claim ==
  /\ (pc["api"] = "save") ~> (pc["api"] = "idle")
  /\ (workers.monitor.pc = "recorded") ~> (workers.monitor.pc = "idle")

\* ---- C28 ---------------------------------------------------------------
\* C28: every access the telemetry worker makes to Device State, the
\* settings, the log ring, the history ring or the learning offsets is made
\* while it holds the lock of that structure (state_lock for `state` and
\* the offsets in it, settings_lock, log_lock; any lock for the history
\* ring, which has none of its own).
C28_Guards(structure) ==
  CASE structure \in {"state", "offsets"} -> {"state_lock"}
    [] structure = "settings" -> {"settings_lock"}
    [] structure = "log_buffer" -> {"log_lock"}
    [] OTHER -> LockNames

C28_Claim ==
  \A a \in workers.monitor.accesses : a.held \cap C28_Guards(a.structure) # {}

\* ---- C29 ---------------------------------------------------------------
\* C29: a controller tick that finds automatic mode disabled changes
\* nothing: no Device State or auto_status field, no learning buffer or
\* offset, not the manual override, no setting; it begins no device
\* operation, sends and logs nothing.
C29_Tick ==
  (AutoRead /\ ~state.auto_enabled)
    => /\ state' = state
       /\ auto_state' = auto_state
       /\ settings' = settings
       /\ settings_file' = settings_file
       /\ pc' = pc
       /\ op' = op
       /\ ops' = ops
       /\ serial' = serial
       /\ log_buffer' = log_buffer
       /\ logged' = << >>
       /\ result' = NoResult

C29_Theorem == [][C29_Tick]_vars

\* Automatic mode was switched off after a tick had applied a level, and a
\* tick has run since (it cleared the handler's log entry and result).
C29_Witness ==
  /\ ~state.auto_enabled
  /\ state.auto_status.applied_level # None
  /\ state.mode = "manual"
  /\ logged = << >>
  /\ result = NoResult
  /\ pc = [t \in Threads |-> "idle"]
  /\ now = StartClock

\* ---- C30 ---------------------------------------------------------------
\* C30: a tick that has run to its end with automatic mode enabled and no
\* override has recorded recommended_level and applied_level, also when its
\* device transition failed.
C30_Claim ==
  (pc["auto"] = "idle" /\ state.auto_status.recommended_level # None)
    => state.auto_status.applied_level # None

\* ---- C31 ---------------------------------------------------------------
\* C31: a transport fault during a send attempt (the link fails to open, or
\* an I/O error) is retried like a silent attempt while fewer than 2 retries
\* were made (the call does not return, its retry count grows by one), and
\* only on the attempt after the second retry does the call return failure
\* with an error log entry carrying the register and the value.
C31_Claim ==
  [][\A t \in Threads : \A out \in Outcomes :
       (pc[t] = "send" /\ out.fault # "none" /\ SendStep(t, out))
         => IF op[t].retry < MaxRetry
              THEN /\ result' = NoResult
                   /\ pc'[t] = "send"
                   /\ op'[t].retry = op[t].retry + 1
              ELSE /\ result'.thread = t
                   /\ result'.value = "False"
                   /\ \E i \in 1..Len(logged') :
                        /\ logged'[i].kind = "error"
                        /\ logged'[i].register = CurrentStep(op[t]).addr
                        /\ logged'[i].value = CurrentStep(op[t]).val]_vars

\* ---- C32 ---------------------------------------------------------------
\* The speed registers, and the register that switches a level's speed on
\* (level 2 is the device's default speed and has none).
SpeedRegisters == {"151", "152", "154"}

SpeedRegister(level) ==
  CASE level = 1 -> "151"
    [] level = 3 -> "152"
    [] level = 4 -> "154"
    [] OTHER -> ""

\* The positions in the sends c of the writes to register r with value v.
Writes(c, r, v) == {i \in 1..Len(c) : c[i] = <<r, v>>}

\* A level sequence that made all its sends.
LevelSequenceSent(t) == pc[t] = "commit" /\ op[t].kind = "level"

\* C32, as claimed: for every target level the sequence is ordered as the
\* writes turning off the other speeds first, then the write to 326, then,
\* last, the write enabling the target speed.
C32_Claim ==
  \A t \in Threads :
    LevelSequenceSent(t)
      => LET c == op[t].cmds
             L == op[t].level
         IN \A k \in 1..Len(c) :
              c[k][1] = "326"
                => /\ \A r \in SpeedRegisters \ {SpeedRegister(L)} :
                        \E i \in Writes(c, r, 0) : i < k
                   /\ \A i \in Writes(c, SpeedRegister(L), 1) : k < i /\ i = Len(c)

\* The writes enabling a speed come last, after every other speed register
\* was commanded off and after the write to 326.
C32_EnableLast ==
  \A t \in Threads :
    op[t].kind = "level"
      => LET c == op[t].cmds
             L == op[t].level
         IN \A i \in 1..Len(c) :
              (c[i][1] \in SpeedRegisters /\ c[i][2] = 1)
                => /\ c[i][1] = SpeedRegister(L)
                   /\ i = Len(Strategies(L))
                   /\ \A r \in SpeedRegisters \ {SpeedRegister(L)} :
                        \E j \in Writes(c, r, 0) : j < i
                   /\ \E j \in 1..(i - 1) : c[j][1] = "326"

\* The write to 326 sets boost inhibit for levels 1 and 2, after the writes
\* turning the speeds off, and clears it for levels 3 and 4, as the first
\* write of the sequence.
C32_Inhibit ==
  \A t \in Threads :
    op[t].kind = "level"
      => LET c == op[t].cmds
             L == op[t].level
         IN \A k \in 1..Len(c) :
              c[k][1] = "326"
                => IF L \in {1, 2}
                     THEN /\ c[k][2] = 1
                          /\ \A r \in SpeedRegisters : \E i \in Writes(c, r, 0) : i < k
                     ELSE /\ c[k][2] = 0
                          /\ k = 1

\* A sequence that made all its sends wrote 326 once and, but for level 2,
\* enabled its speed.
C32_Whole ==
  \A t \in Threads :
    LevelSequenceSent(t)
      => LET c == op[t].cmds
             L == op[t].level
         IN /\ Cardinality({k \in 1..Len(c) : c[k][1] = "326"}) = 1
            /\ (L # 2) => Writes(c, SpeedRegister(L), 1) = {Len(c)}
            /\ (L = 2) => \A i \in 1..Len(c) : c[i][2] = 1 => c[i][1] = "326"

\* C32, amended: for levels 1 and 2 the sequence turns the speeds off, then
\* sets boost inhibit, then (level 1) enables the target speed; for levels 3
\* and 4 it first clears boost inhibit, then turns the other speeds off,
\* then enables the target speed; in every sequence the enabling write is
\* the last one, and no speed is commanded on before every other speed
\* register was commanded off.
C32_Theorem == C32_EnableLast /\ C32_Inhibit /\ C32_Whole

\* A level-3 sequence that made all its sends: 326 first, speed 3 last.
C32_Witness ==
  /\ LevelSequenceSent("api")
  /\ op["api"].level = 3
  /\ op["api"].cmds = << <<"326", 0>>, <<"154", 0>>, <<"151", 0>>, <<"152", 1>> >>

\* ---- C34 ---------------------------------------------------------------
\* The values a level's sequence leaves commanded on the device.
LevelImage(L) ==
  [r \in LevelRegisters |->
     CASE r = "151" -> IF L = 1 THEN 1 ELSE 0
       [] r = "152" -> IF L = 3 THEN 1 ELSE 0
       [] r = "154" -> IF L = 4 THEN 1 ELSE 0
       [] r = "326" -> IF L \in {1, 2} THEN 1 ELSE 0]

\* C34: when apply_level_strategy(L) has returned True, whatever the
\* registers held before, the values last commanded are 151 = 1 iff L = 1,
\* 152 = 1 iff L = 3, 154 = 1 iff L = 4 and 326 = 1 iff L is 1 or 2, so at
\* most one speed register is commanded on.
C34_Theorem ==
  JustReturned("apply_level_strategy", "True")
    => LET L == op[result.thread].level
       IN /\ L \in Levels
          /\ device["151"] = 1 <=> L = 1
          /\ device["152"] = 1 <=> L = 3
          /\ device["154"] = 1 <=> L = 4
          /\ device["326"] = 1 <=> L \in {1, 2}
          /\ device \in [LevelRegisters -> {0, 1}]
          /\ Cardinality({r \in SpeedRegisters : device[r] = 1}) <= 1

\* apply_level_strategy(3) returned True after one of its sends was retried.
C34_Witness ==
  /\ JustReturned("apply_level_strategy", "True")
  /\ op["api"].level = 3
  /\ op["api"].tx = 2
  /\ device = LevelImage(3)

\* ---- C35 ---------------------------------------------------------------
\* C35: after any sequence of successful set-level, turn-off and
\* toggle-boost operations run one at a time from a successful turn-off on,
\* Device State agrees with the values last commanded: current_level = 4
\* iff 154 was last commanded 1, current_level = 3 iff 152 was, current_level
\* = 1 iff 151 was, and boost_inhibit is the value last commanded to 326.
C35_Claim ==
  (pc["api"] = "idle" /\ device # NoDevice)
    => /\ state.current_level = 4 <=> device["154"] = 1
       /\ state.current_level = 3 <=> device["152"] = 1
       /\ state.current_level = 1 <=> device["151"] = 1
       /\ state.boost_inhibit <=> device["326"] = 1

\* ---- C33 ---------------------------------------------------------------
\* C33: when a manual set-level sequence and a level sequence of the
\* adaptive controller ran concurrently and both returned success, the
\* values last commanded to 151, 152, 154 and 326 are those of one target
\* level, and that level is the one current_level records.
C33_Claim ==
  ((\A t \in Threads : pc[t] = "idle") /\ device # NoDevice)
    => \E L \in Levels : device = LevelImage(L) /\ state.current_level = L

\* ---- C36 ---------------------------------------------------------------
\* C36: while night quiet is enabled and the time is inside the quiet
\* window, no operation (manual set level, adaptive controller, toggle
\* boost) changes current_level to a value above night_quiet.max_level.
C36_Claim ==
  [][(/\ IsWithinQuietHours(state, settings, now)
      /\ state'.current_level # state.current_level
      /\ state'.current_level # None)
       => state'.current_level <= settings.night_quiet.max_level]_vars

\* ---- C37 ---------------------------------------------------------------
\* C37: after every completed mutation of the night-quiet configuration,
\* by the night-mode operation or by the general settings update (each of
\* them one step here), the flag state.night_quiet_enabled that the guard
\* reads equals settings.night_quiet.enabled.
C37_Claim == state.night_quiet_enabled = settings.night_quiet.enabled

\* ---- C38 ---------------------------------------------------------------
\* C38: under every interleaving of is_active (run by the controller) with
\* schedule (run by a manual action), an override whose expiry T lies in
\* the future is not cleared before T: manual_override_until stays set
\* until T has passed or a later schedule has replaced it.
C38_Claim ==
  [][(/\ state.manual_override_until # None
      /\ state.manual_override_until > TimeSec(now'))
       => state'.manual_override_until # None]_vars

\* ---- C39 ---------------------------------------------------------------
\* Both request threads are in a boost toggle whose send succeeded and
\* whose state update is made.
BothToggled == \A t \in Handlers : pc[t] = "sched" /\ op[t].kind = "boost"

\* C39: two successful toggle_boost actions that ran concurrently have the
\* effect of one running after the other: one of them switched boost from
\* b to not b and the other back (so boost_active is b again), and the
\* value last commanded to register 154 matches the final boost_active.
C39_Claim ==
  BothToggled
    => /\ op["api"].new_state # op["api2"].new_state
       /\ \E t \in Handlers : op[t].new_state = state.boost_active
       /\ device["154"] = 1 <=> state.boost_active

====
